---- MODULE Spec2Model ----
(***************************************************************************)
(* Stopwatch / Countdown timer of script.js.  The file holds three         *)
(* implementations of the same page:                                       *)
(*   "class"  Timer / Stopwatch / CountdownTimer / UIController (1-717)    *)
(*   "proc"   the procedural script with sw* / cd* globals      (718-952)  *)
(*   "base"   TimerBase / Stopwatch / Countdown / ViewManager   (1102-1786)*)
(* A page loads one of them; variant records which one.  Times are         *)
(* milliseconds, now is Date.now().                                        *)
(***************************************************************************)
EXTENDS Integers, Sequences, FiniteSets, TLC

VARIABLES
    variant,        \* which implementation the page runs
    now,            \* Date.now()
    stopwatch,      \* class: UIController.stopwatch (a Timer)
    countdownTimer, \* class: UIController.countdownTimer
    ui,             \* class: UIController fields and the classList 'hidden' of its elements
    tbStopwatch,    \* base: the Stopwatch instance
    countdown,      \* base: the Countdown instance
    sw,             \* proc: swInterval, swStart, swElapsed and the stopwatch display
    cd,             \* proc: cdDigits, cdMilliseconds, cdInterval, cdEnd and the countdown display
    classList,      \* proc: the elements that carry the class 'hidden'
    alert,          \* the message the latest step showed to the user, "none" if it showed none
    expiredAlerts,  \* history: expiration alerts shown since the last successful Set or Clear
    pressed,        \* history: digits pressed since the buffer was last emptied
    run,            \* history: when the countdown last began to run (since), and whether
                    \*          the user has given no input from then on (quiet)
    swMark,         \* history: when the stopwatch last began to run (at), and its elapsed
                    \*          time when it last stopped running (elapsed)
    lastOp,         \* history: the handler or callback the latest step ran (op), and whether
                    \*          the stopwatch and the countdown were running when it began
    formatArg,      \* the milliseconds handed to the formatters
    formatted       \* what each formatter returned for formatArg, once it was called

vars == <<variant, now, stopwatch, countdownTimer, ui, tbStopwatch, countdown,
          sw, cd, classList, alert, expiredAlerts, pressed, run, swMark, lastOp,
          formatArg, formatted>>

\* ---------------------------------------------------------------- bounds
\* Date.now() when the page loads.
Epoch == 1000
\* The modelled clock advances in steps of ClockStep ms, at most MaxSteps times.
ClockStep == 600
MaxSteps == 4
\* The same, in the specification of the whole page.
PageSteps == 2
\* Digit presses since the buffer was last emptied, in the timing specifications.
MaxPresses == 2
\* The same, in the digit-entry specification.
MaxEntryPresses == 7
\* Expiration alerts counted per session.
MaxAlerts == 3

\* The digit keys pressed in the timing specifications and in the digit-entry one.
TimingDigits == {0, 1}
EntryDigits == {0, 5, 6, 9}

Null == 0
NoAlert == "none"

\* ---------------------------------------------------------------- strings
\* A digit string is a sequence of digits 0..9.

\* String.prototype.padStart(6, '0')
PadStart6(s) ==
    IF Len(s) >= 6 THEN s
    ELSE [i \in 1..6 |-> IF i <= 6 - Len(s) THEN 0 ELSE s[i - (6 - Len(s))]]

\* String.prototype.slice(-6)
SliceLast6(s) == IF Len(s) <= 6 THEN s ELSE SubSeq(s, Len(s) - 5, Len(s))

\* String.prototype.slice(0, -1)
SliceDropLast(s) == IF Len(s) = 0 THEN s ELSE SubSeq(s, 1, Len(s) - 1)

\* parseInt of a two-character digit string
ParseInt2(s) == 10 * s[1] + s[2]

\* String(n) of a non-negative integer: its decimal digits
RECURSIVE StringOf(_)
StringOf(n) == IF n < 10 THEN <<n>> ELSE Append(StringOf(n \div 10), n % 10)

\* String.prototype.padStart(len, '0')
PadStart(s, len) ==
    IF Len(s) >= len THEN s
    ELSE [i \in 1..len |-> IF i <= len - Len(s) THEN 0 ELSE s[i - (len - Len(s))]]

\* A formatTime whose hours wrap at 100.
Timer_formatTime_HoursWrap(ms) ==
    LET totalSeconds == ms \div 1000
    IN  [hours |-> PadStart(StringOf((totalSeconds \div 3600) % 100), 2),
         minutes |-> PadStart(StringOf((totalSeconds % 3600) \div 60), 2),
         seconds |-> PadStart(StringOf(totalSeconds % 60), 2),
         milliseconds |-> PadStart(StringOf(ms % 1000), 3)]

\* Timer.formatTime(ms): the fields of the returned object
Timer_formatTime(ms) ==
    LET totalSeconds == ms \div 1000
    IN  [hours |-> PadStart(StringOf(totalSeconds \div 3600), 2),
         minutes |-> PadStart(StringOf((totalSeconds % 3600) \div 60), 2),
         seconds |-> PadStart(StringOf(totalSeconds % 60), 2),
         milliseconds |-> PadStart(StringOf(ms % 1000), 3)]

\* formatTime(ms) of the procedural script: time is hours:minutes:seconds, ms the rest
formatTime(ms) ==
    LET milliseconds == ms % 1000
        totalSeconds == ms \div 1000
        hours == totalSeconds \div 3600
        minutes == (totalSeconds % 3600) \div 60
        seconds == totalSeconds % 60
    IN  [hours |-> PadStart(StringOf(hours), 2),
         minutes |-> PadStart(StringOf(minutes), 2),
         seconds |-> PadStart(StringOf(seconds), 2),
         milliseconds |-> PadStart(StringOf(milliseconds), 3)]

\* TimerBase.formatTime(ms): the parts of the returned string
TimerBase_formatTime(ms0) ==
    LET ms == IF ms0 >= 0 THEN ms0 ELSE 0
        hours == ms \div 3600000
        minutes == (ms % 3600000) \div 60000
        seconds == (ms % 60000) \div 1000
        milliseconds == ms % 1000
    IN  [hours |-> PadStart(StringOf(hours), 2),
         minutes |-> PadStart(StringOf(minutes), 2),
         seconds |-> PadStart(StringOf(seconds), 2),
         milliseconds |-> PadStart(StringOf(milliseconds), 3)]

\* No formatter has been called yet.
NoText == [hours |-> <<>>, minutes |-> <<>>, seconds |-> <<>>, milliseconds |-> <<>>]

NotFormatted ==
    [timer |-> [called |-> FALSE, text |-> NoText],
     proc |-> [called |-> FALSE, text |-> NoText],
     base |-> [called |-> FALSE, text |-> NoText]]

\* ------------------------------------------------ browser scheduling
\* An engine record owns the callbacks it requested: o.pending holds the ids
\* of its requestAnimationFrame / setInterval requests that are still live.
\* Ids of the browser never repeat; an id is reused here only when nothing
\* refers to it any more.
FreshId(live, handle) ==
    CHOOSE n \in 1..(Cardinality(live) + 2) :
        /\ n \notin live /\ n # handle
        /\ \A m \in 1..(n - 1) : m \in live \/ m = handle

\* this.animationFrame = requestAnimationFrame(() => this._update())
RequestFrame(o) ==
    LET id == FreshId(o.pending, o.animationFrame)
    IN  [o EXCEPT !.animationFrame = id, !.pending = @ \cup {id}]

\* cancelAnimationFrame(this.animationFrame)
CancelFrame(o) == [o EXCEPT !.pending = @ \ {o.animationFrame}]

\* ------------------------------------------------ what an observer records
\* Whether the stopwatch / the countdown of the running variant is running, and
\* the stopwatch's elapsed time.  The procedural script keeps no running flag:
\* its engine runs while its interval is live.
SwRunning ==
    CASE variant \in {"class", "Timer"} -> stopwatch.isRunning
      [] variant \in {"base", "TimerBase.Stopwatch"} -> tbStopwatch.isRunning
      [] variant = "proc" -> sw.pending # {}
      [] OTHER -> FALSE

CdRunning ==
    CASE variant \in {"class", "CountdownTimer"} -> countdownTimer.isRunning
      [] variant \in {"base", "TimerBase.Countdown"} -> countdown.isRunning
      [] variant = "proc" -> cd.pending # {}
      [] OTHER -> FALSE

SwElapsed ==
    CASE variant \in {"class", "Timer"} -> stopwatch.elapsedTime
      [] variant \in {"base", "TimerBase.Stopwatch"} -> tbStopwatch.elapsedTime
      [] variant = "proc" -> sw.swElapsed
      [] OTHER -> 0

\* The history variables after a step that ran op, showed al and was (q false)
\* or was not (q true) a user input that breaks the quiet of the current run.
History(op, al, ea, pr, q) ==
    /\ alert' = al
    /\ expiredAlerts' = ea
    /\ pressed' = pr
    /\ run' = [since |-> IF ~CdRunning /\ CdRunning' THEN now ELSE run.since,
               quiet |-> q]
    /\ swMark' = [at |-> IF ~SwRunning /\ SwRunning' THEN now ELSE swMark.at,
                  elapsed |-> IF ~SwRunning' THEN SwElapsed' ELSE swMark.elapsed]
    /\ lastOp' = [op |-> op, swRunning |-> SwRunning, cdRunning |-> CdRunning]
    /\ UNCHANGED <<formatArg, formatted>>

\* ------------------------------------------------ class: Timer (Stopwatch)
NewTimer == [startTime |-> 0, elapsedTime |-> 0, isRunning |-> FALSE,
             animationFrame |-> Null, pending |-> {}]

Timer_update(t, clock) ==
    IF ~t.isRunning THEN t
    ELSE RequestFrame([t EXCEPT !.elapsedTime = clock - t.startTime])

\* A start() that anchors at the clock and forgets the time already elapsed.
Timer_start_FromZero(t, clock) ==
    IF t.isRunning THEN t
    ELSE Timer_update([t EXCEPT !.isRunning = TRUE, !.startTime = clock], clock)

\* A start() without the guard against a running timer.
Timer_start_Unguarded(t, clock) ==
    Timer_update([t EXCEPT !.isRunning = TRUE, !.startTime = clock - t.elapsedTime], clock)

Timer_start(t, clock) ==
    IF t.isRunning THEN t
    ELSE Timer_update([t EXCEPT !.isRunning = TRUE,
                                !.startTime = clock - t.elapsedTime], clock)

Timer_stop(t) ==
    IF ~t.isRunning THEN t
    ELSE LET u == [t EXCEPT !.isRunning = FALSE]
         IN  IF u.animationFrame # Null
             THEN [CancelFrame(u) EXCEPT !.animationFrame = Null]
             ELSE u

\* A reset() that zeroes the elapsed time of a timer it leaves running.
Timer_reset_KeepsRunning(t) == [t EXCEPT !.elapsedTime = 0]

Timer_reset(t) == [Timer_stop(t) EXCEPT !.elapsedTime = 0]

\* ------------------------------------------------ class: CountdownTimer
NewCountdownTimer == [initialTime |-> 0, remainingTime |-> 0, isRunning |-> FALSE,
                      startTime |-> 0, animationFrame |-> Null, hasExpired |-> FALSE,
                      pending |-> {}]

Max(a, b) == IF a >= b THEN a ELSE b

\* setTime(ms) for ms > 0; for ms <= 0 it throws and changes nothing
\* A setTime that replaces the duration and leaves the time left alone.
CountdownTimer_setTime_DurationOnly(c, ms) ==
    IF ms <= 0 THEN c
    ELSE [c EXCEPT !.initialTime = ms, !.hasExpired = FALSE]

\* A setTime that leaves the expired flag as it finds it.
CountdownTimer_setTime_KeepsExpired(c, ms) ==
    IF ms <= 0 THEN c
    ELSE [c EXCEPT !.initialTime = ms, !.remainingTime = ms]

CountdownTimer_setTime(c, ms) ==
    IF ms <= 0 THEN c
    ELSE [c EXCEPT !.initialTime = ms, !.remainingTime = ms, !.hasExpired = FALSE]

\* An _update that never notices that the time has run out.
CountdownTimer_update_NeverStops(c, clock) ==
    IF ~c.isRunning THEN c
    ELSE RequestFrame([c EXCEPT !.remainingTime = Max(0, c.initialTime - (clock - c.startTime))])

\* An _update that asks for the next frame even when the engine is stopped.
CountdownTimer_update_AlwaysAsks(c, clock) ==
    IF ~c.isRunning THEN RequestFrame(c)
    ELSE LET elapsed == clock - c.startTime
             r == Max(0, c.initialTime - elapsed)
             d == [c EXCEPT !.remainingTime = r]
             e == IF r <= 0
                  THEN [d EXCEPT !.isRunning = FALSE, !.remainingTime = 0,
                                 !.hasExpired = TRUE]
                  ELSE d
         IN  RequestFrame(e)

\* An _update without the test of the running flag.
CountdownTimer_update_Unguarded(c, clock) ==
    LET elapsed == clock - c.startTime
        r == Max(0, c.initialTime - elapsed)
        d == [c EXCEPT !.remainingTime = r]
        e == IF r <= 0
             THEN [d EXCEPT !.isRunning = FALSE, !.remainingTime = 0,
                            !.hasExpired = TRUE]
             ELSE d
    IN  RequestFrame(e)

CountdownTimer_update(c, clock) ==
    IF ~c.isRunning THEN c
    ELSE LET elapsed == clock - c.startTime
             r == Max(0, c.initialTime - elapsed)
             d == [c EXCEPT !.remainingTime = r]
             e == IF r <= 0
                  THEN [d EXCEPT !.isRunning = FALSE, !.remainingTime = 0,
                                 !.hasExpired = TRUE]
                  ELSE d
         IN  RequestFrame(e)

CountdownTimer_start(c, clock) ==
    IF c.isRunning THEN c
    ELSE IF c.remainingTime <= 0 THEN c
    ELSE CountdownTimer_update([c EXCEPT !.isRunning = TRUE, !.startTime = clock,
                                         !.hasExpired = FALSE], clock)

\* A stop() without the test of the running flag.
CountdownTimer_stop_Unguarded(c) ==
    LET u == [c EXCEPT !.isRunning = FALSE]
    IN  IF u.animationFrame # Null
        THEN [CancelFrame(u) EXCEPT !.animationFrame = Null]
        ELSE u

CountdownTimer_stop(c) ==
    IF ~c.isRunning THEN c
    ELSE LET u == [c EXCEPT !.isRunning = FALSE]
         IN  IF u.animationFrame # Null
             THEN [CancelFrame(u) EXCEPT !.animationFrame = Null]
             ELSE u

CountdownTimer_reset(c) ==
    [CountdownTimer_stop(c) EXCEPT !.remainingTime = c.initialTime, !.hasExpired = FALSE]

\* A clear() that stops the countdown but keeps its configured duration.
CountdownTimer_clear_KeepsDuration(c) ==
    [CountdownTimer_stop(c) EXCEPT !.remainingTime = 0, !.hasExpired = FALSE]

CountdownTimer_clear(c) ==
    [CountdownTimer_stop(c) EXCEPT !.initialTime = 0, !.remainingTime = 0,
                                   !.hasExpired = FALSE]

\* ------------------------------------------------ class: UIController
\* The elements of index.html that the script hides and shows.  The markup
\* is not part of the script; the initial classes follow the page described in
\* prompt.md (home screen first; Start and Clear shown, Pause and Continue
\* hidden) and resetCountdownUI for the countdown screen.
ClassInitialHidden ==
    {"stopwatchScreen", "countdownScreen", "pauseStopwatchBtn", "continueStopwatchBtn",
     "countdownControls", "startCountdownBtn", "pauseCountdownBtn",
     "continueCountdownBtn", "clearCountdownBtn"}

NewUI == [inputSequence |-> <<>>, countdownExpired |-> FALSE, hidden |-> ClassInitialHidden]

Shown(el) == el \notin ui.hidden

\* A button takes a click when it, the group that holds it and its screen are shown.
StopwatchBtnShown(btn) == Shown("stopwatchScreen") /\ Shown(btn)
CountdownInputShown == Shown("countdownScreen") /\ Shown("countdownInput")
CountdownBtnShown(btn) ==
    Shown("countdownScreen") /\ Shown("countdownControls") /\ Shown(btn)

\* (hours * 3600 + minutes * 60 + seconds) * 1000 of the padded sequence
TotalMs(seq) ==
    LET padded == PadStart6(seq)
        hours == ParseInt2(SubSeq(padded, 1, 2))
        minutes == ParseInt2(SubSeq(padded, 3, 4))
        seconds == ParseInt2(SubSeq(padded, 5, 6))
    IN  (hours * 3600 + minutes * 60 + seconds) * 1000

\* clearCountdownInput()
UI_clearCountdownInput(u) == [u EXCEPT !.inputSequence = <<>>]

\* resetCountdownUI()
UI_resetCountdownUI(u) ==
    UI_clearCountdownInput(
        [u EXCEPT !.hidden = (@ \ {"countdownInput"}) \cup
                     {"countdownControls", "startCountdownBtn", "pauseCountdownBtn",
                      "continueCountdownBtn", "clearCountdownBtn"}])

\* showScreen(screen)
UI_showScreen(u, screen) ==
    LET allHidden == [u EXCEPT !.hidden = @ \cup {"homeScreen", "stopwatchScreen",
                                                  "countdownScreen"}]
    IN  CASE screen = "home" -> [allHidden EXCEPT !.hidden = @ \ {"homeScreen"}]
          [] screen = "stopwatch" -> [allHidden EXCEPT !.hidden = @ \ {"stopwatchScreen"}]
          [] screen = "countdown" ->
                [UI_resetCountdownUI([allHidden EXCEPT !.hidden = @ \ {"countdownScreen"}])
                    EXCEPT !.countdownExpired = FALSE]

\* A handleNumberInput that ignores a digit pressed on a full sequence.
UI_handleNumberInput_KeepsFirstSix(seq, number) ==
    IF Len(seq) >= 6 THEN seq ELSE Append(seq, number)

\* handleNumberInput(number): the new inputSequence
UI_handleNumberInput(seq, number) == SliceLast6(Append(seq, number))

\* A handleBackspace that removes the oldest digit instead of the newest.
UI_handleBackspace_DropsOldest(seq) == IF Len(seq) = 0 THEN seq ELSE Tail(seq)

\* handleBackspace(): the new inputSequence
UI_handleBackspace(seq) == SliceDropLast(seq)

\* One step of the class-based page: the new objects and what the user saw.
ClassStep(op, s2, c2, u2, al, ea, pr, q) ==
    /\ variant = "class"
    /\ stopwatch' = s2
    /\ countdownTimer' = c2
    /\ ui' = u2
    /\ UNCHANGED <<variant, now, tbStopwatch, countdown, sw, cd, classList>>
    /\ History(op, al, ea, pr, q)

ShowScreen(screen) ==
    /\ IF screen = "home" THEN Shown("stopwatchScreen") \/ Shown("countdownScreen")
                          ELSE Shown("homeScreen")
    /\ LET u2 == UI_showScreen(ui, screen)
       IN  ClassStep("showScreen", stopwatch, countdownTimer, u2, NoAlert, expiredAlerts,
                     IF screen = "countdown" THEN <<>> ELSE pressed, FALSE)

StartStopwatch ==
    /\ StopwatchBtnShown("startStopwatchBtn")
    /\ ClassStep("startStopwatch", Timer_start(stopwatch, now), countdownTimer,
                 [ui EXCEPT !.hidden = (@ \cup {"startStopwatchBtn"}) \ {"pauseStopwatchBtn"}],
                 NoAlert, expiredAlerts, pressed, FALSE)

PauseStopwatch ==
    /\ StopwatchBtnShown("pauseStopwatchBtn")
    /\ ClassStep("pauseStopwatch", Timer_stop(stopwatch), countdownTimer,
                 [ui EXCEPT !.hidden = (@ \cup {"pauseStopwatchBtn"}) \ {"continueStopwatchBtn"}],
                 NoAlert, expiredAlerts, pressed, FALSE)

ContinueStopwatch ==
    /\ StopwatchBtnShown("continueStopwatchBtn")
    /\ ClassStep("continueStopwatch", Timer_start(stopwatch, now), countdownTimer,
                 [ui EXCEPT !.hidden = (@ \cup {"continueStopwatchBtn"}) \ {"pauseStopwatchBtn"}],
                 NoAlert, expiredAlerts, pressed, FALSE)

\* A Clear of the stopwatch that clears the countdown with it.
ClearStopwatch_ClearsBoth ==
    /\ Shown("stopwatchScreen")
    /\ ClassStep("clearStopwatch", Timer_reset(stopwatch), CountdownTimer_clear(countdownTimer),
                 [ui EXCEPT !.hidden = (@ \ {"startStopwatchBtn"}) \cup
                                       {"pauseStopwatchBtn", "continueStopwatchBtn"}],
                 "Stopwatch has been reset", expiredAlerts, pressed, FALSE)

ClearStopwatch ==
    /\ Shown("stopwatchScreen")
    /\ ClassStep("clearStopwatch", Timer_reset(stopwatch), countdownTimer,
                 [ui EXCEPT !.hidden = (@ \ {"startStopwatchBtn"}) \cup
                                       {"pauseStopwatchBtn", "continueStopwatchBtn"}],
                 "Stopwatch has been reset", expiredAlerts, pressed, FALSE)

HandleNumberInput(digits, maxPresses) ==
    /\ CountdownInputShown
    /\ Len(pressed) < maxPresses
    /\ \E number \in digits :
          ClassStep("handleNumberInput", stopwatch, countdownTimer,
                    [ui EXCEPT !.inputSequence = UI_handleNumberInput(@, number)],
                    NoAlert, expiredAlerts, Append(pressed, number), FALSE)

HandleBackspace ==
    /\ CountdownInputShown
    /\ LET seq == UI_handleBackspace(ui.inputSequence)
       IN  ClassStep("handleBackspace", stopwatch, countdownTimer,
                     [ui EXCEPT !.inputSequence = seq], NoAlert, expiredAlerts, seq, FALSE)

ClearCountdownInput ==
    /\ CountdownInputShown
    /\ ClassStep("clearCountdownInput", stopwatch, countdownTimer,
                 UI_clearCountdownInput(ui), NoAlert, expiredAlerts, <<>>, FALSE)

SetCountdownTime ==
    /\ CountdownInputShown
    /\ LET totalMs == TotalMs(ui.inputSequence)
       IN  IF totalMs <= 0
           THEN ClassStep("setCountdownTime", stopwatch, countdownTimer, ui,
                          "Please enter a valid time greater than zero",
                          expiredAlerts, pressed, FALSE)
           ELSE ClassStep("setCountdownTime", stopwatch,
                          CountdownTimer_setTime(countdownTimer, totalMs),
                          [ui EXCEPT !.hidden = (@ \cup {"countdownInput"}) \
                                         {"countdownControls", "startCountdownBtn",
                                          "clearCountdownBtn"},
                                     !.countdownExpired = FALSE],
                          NoAlert, 0, pressed, FALSE)

StartCountdown ==
    /\ CountdownBtnShown("startCountdownBtn")
    /\ LET c2 == CountdownTimer_start(countdownTimer, now)
       IN  ClassStep("startCountdown", stopwatch, c2,
                     [ui EXCEPT !.hidden = (@ \cup {"startCountdownBtn"}) \ {"pauseCountdownBtn"},
                                !.countdownExpired = FALSE],
                     NoAlert, expiredAlerts, pressed,
                     c2.isRunning /\ ~countdownTimer.isRunning)

PauseCountdown ==
    /\ CountdownBtnShown("pauseCountdownBtn")
    /\ ClassStep("pauseCountdown", stopwatch, CountdownTimer_stop(countdownTimer),
                 [ui EXCEPT !.hidden = (@ \cup {"pauseCountdownBtn"}) \ {"continueCountdownBtn"}],
                 NoAlert, expiredAlerts, pressed, FALSE)

ContinueCountdown ==
    /\ CountdownBtnShown("continueCountdownBtn")
    /\ LET c2 == CountdownTimer_start(countdownTimer, now)
       IN  ClassStep("continueCountdown", stopwatch, c2,
                     [ui EXCEPT !.hidden = (@ \cup {"continueCountdownBtn"}) \ {"pauseCountdownBtn"}],
                     NoAlert, expiredAlerts, pressed,
                     c2.isRunning /\ ~countdownTimer.isRunning)

ClearCountdown ==
    /\ CountdownBtnShown("clearCountdownBtn")
    /\ ClassStep("clearCountdown", stopwatch, CountdownTimer_clear(countdownTimer),
                 UI_resetCountdownUI(ui), "Countdown has been cleared", 0, <<>>, FALSE)

\* The display loop's frame: _updateDisplays()
ExpiryNoticed ==
    /\ Shown("countdownScreen") /\ Shown("countdownControls")
    /\ countdownTimer.hasExpired /\ ~ui.countdownExpired

UpdateDisplays ==
    IF ExpiryNoticed
    THEN /\ expiredAlerts < MaxAlerts
         /\ ClassStep("_updateDisplays", stopwatch, CountdownTimer_stop(countdownTimer),
                      [ui EXCEPT !.hidden = (@ \cup {"pauseCountdownBtn"}) \ {"startCountdownBtn"},
                                 !.countdownExpired = TRUE],
                      "Countdown has expired!", expiredAlerts + 1, pressed, run.quiet)
    ELSE ClassStep("_updateDisplays", stopwatch, countdownTimer, ui, NoAlert,
                   expiredAlerts, pressed, run.quiet)

\* An animation frame of the stopwatch: the callback requested at line 67 runs.
TimerFrame ==
    \E id \in stopwatch.pending :
        ClassStep("Timer._update",
                  Timer_update([stopwatch EXCEPT !.pending = @ \ {id}], now),
                  countdownTimer, ui, NoAlert, expiredAlerts, pressed, run.quiet)

\* An animation frame of the countdown: the callback requested at line 217 runs.
CountdownTimerFrame ==
    \E id \in countdownTimer.pending :
        ClassStep("CountdownTimer._update", stopwatch,
                  CountdownTimer_update([countdownTimer EXCEPT !.pending = @ \ {id}], now),
                  ui, NoAlert, expiredAlerts, pressed, run.quiet)

\* ------------------------------------------------ base: TimerBase / Stopwatch
\* updateButtonVisibility(state) hides Start, Pause and Continue and shows the
\* one of the state, so buttons holds the state it was last called with; in the
\* same way controls holds the state of updateControlVisibility.  display is
\* what updateDisplay wrote.
TimerBase_updateDisplay(o, timeInMs) == [o EXCEPT !.display = TimerBase_formatTime(timeInMs)]

\* this.timerInterval = setInterval(callback, 10)
SetInterval(o) ==
    LET id == FreshId(o.pending, o.timerInterval)
    IN  [o EXCEPT !.timerInterval = id, !.pending = @ \cup {id}]

\* clearInterval(this.timerInterval)
ClearInterval(o) == [o EXCEPT !.pending = @ \ {o.timerInterval}]

Stopwatch_reset(w) ==
    [TimerBase_updateDisplay(ClearInterval([w EXCEPT !.isRunning = FALSE]), 0)
        EXCEPT !.startTime = 0, !.elapsedTime = 0, !.buttons = "initial"]

NewStopwatch ==
    Stopwatch_reset([timerInterval |-> Null, isRunning |-> FALSE, startTime |-> 0,
                     elapsedTime |-> 0, pending |-> {}, buttons |-> "initial",
                     display |-> TimerBase_formatTime(0)])

\* A start() that anchors at the clock and forgets the time already elapsed.
Stopwatch_start_FromZero(w, clock) ==
    IF w.isRunning THEN w
    ELSE [SetInterval([w EXCEPT !.isRunning = TRUE, !.startTime = clock])
            EXCEPT !.buttons = "running"]

Stopwatch_start(w, clock) ==
    IF w.isRunning THEN w
    ELSE [SetInterval([w EXCEPT !.isRunning = TRUE, !.startTime = clock - w.elapsedTime])
            EXCEPT !.buttons = "running"]

\* the interval callback of Stopwatch.start
Stopwatch_tick(w, clock) ==
    TimerBase_updateDisplay([w EXCEPT !.elapsedTime = clock - w.startTime],
                            clock - w.startTime)

Stopwatch_pause(w) ==
    IF ~w.isRunning THEN w
    ELSE [ClearInterval([w EXCEPT !.isRunning = FALSE]) EXCEPT !.buttons = "paused"]

Stopwatch_continue(w, clock) == Stopwatch_start(w, clock)

\* ------------------------------------------------ base: Countdown
\* msg is the message the call handed to ViewManager.showAlert, if any.
MaxTimeMs == 99 * 3600000 + 59 * 60000 + 59 * 1000

Countdown_updateButtonVisibility(c, state) == [c EXCEPT !.buttons = state]

Countdown_updateControlVisibility(c, state) ==
    Countdown_updateButtonVisibility([c EXCEPT !.controls = state], "initial")

Countdown_resetInput(c) ==
    Countdown_updateButtonVisibility(
        Countdown_updateControlVisibility(
            TimerBase_updateDisplay(
                [ClearInterval(c) EXCEPT !.isRunning = FALSE, !.inputBuffer = <<>>,
                                         !.initialTime = 0, !.remainingTime = 0], 0),
            "input"),
        "initial")

NewCountdown ==
    Countdown_resetInput([timerInterval |-> Null, isRunning |-> FALSE, initialTime |-> 0,
                          remainingTime |-> 0, inputBuffer |-> <<>>, startTime |-> 0,
                          pending |-> {}, controls |-> "input", buttons |-> "initial",
                          display |-> TimerBase_formatTime(0), msg |-> NoAlert])

\* An updateInputDisplay that reads a minutes or seconds field above 59 as 59.
Countdown_updateInputDisplay_ClampsFields(c) ==
    LET rawTime == c.inputBuffer
        paddedTime == IF Len(rawTime) > 6 THEN SliceLast6(rawTime) ELSE PadStart6(rawTime)
        hours == ParseInt2(SubSeq(paddedTime, 1, 2))
        mm == ParseInt2(SubSeq(paddedTime, 3, 4))
        ss == ParseInt2(SubSeq(paddedTime, 5, 6))
        minutes == IF mm > 59 THEN 59 ELSE mm
        seconds == IF ss > 59 THEN 59 ELSE ss
        currentInputMs == hours * 3600000 + minutes * 60000 + seconds * 1000
    IN  TimerBase_updateDisplay([c EXCEPT !.remainingTime = currentInputMs], currentInputMs)

Countdown_updateInputDisplay(c) ==
    LET rawTime == c.inputBuffer
        paddedTime == IF Len(rawTime) > 6 THEN SliceLast6(rawTime) ELSE PadStart6(rawTime)
        hours == ParseInt2(SubSeq(paddedTime, 1, 2))
        minutes == ParseInt2(SubSeq(paddedTime, 3, 4))
        seconds == ParseInt2(SubSeq(paddedTime, 5, 6))
        currentInputMs == hours * 3600000 + minutes * 60000 + seconds * 1000
    IN  TimerBase_updateDisplay([c EXCEPT !.remainingTime = currentInputMs], currentInputMs)

Countdown_appendDigit(c, digit) ==
    LET shifted == IF Len(c.inputBuffer) >= 6 THEN Tail(c.inputBuffer) ELSE c.inputBuffer
    IN  Countdown_updateInputDisplay([c EXCEPT !.inputBuffer = Append(shifted, digit)])

\* A setTime() that turns away the maximum itself.
Countdown_setTime_BelowMaximum(c) ==
    IF Len(c.inputBuffer) = 0 \/ c.remainingTime = 0
    THEN [c EXCEPT !.msg = "Please enter a time greater than zero."]
    ELSE IF c.remainingTime >= MaxTimeMs
    THEN Countdown_resetInput([c EXCEPT !.msg = "Maximum time allowed is 99:59:59."])
    ELSE Countdown_updateButtonVisibility(
            Countdown_updateControlVisibility(
                [c EXCEPT !.initialTime = c.remainingTime], "timer"),
            "initial")

\* A setTime() that turns away an empty buffer only.
Countdown_setTime_EmptyOnly(c) ==
    IF Len(c.inputBuffer) = 0
    THEN [c EXCEPT !.msg = "Please enter a time greater than zero."]
    ELSE IF c.remainingTime > MaxTimeMs
    THEN Countdown_resetInput([c EXCEPT !.msg = "Maximum time allowed is 99:59:59."])
    ELSE Countdown_updateButtonVisibility(
            Countdown_updateControlVisibility(
                [c EXCEPT !.initialTime = c.remainingTime], "timer"),
            "initial")

Countdown_setTime(c) ==
    IF Len(c.inputBuffer) = 0 \/ c.remainingTime = 0
    THEN [c EXCEPT !.msg = "Please enter a time greater than zero."]
    ELSE IF c.remainingTime > MaxTimeMs
    THEN Countdown_resetInput([c EXCEPT !.msg = "Maximum time allowed is 99:59:59."])
    ELSE Countdown_updateButtonVisibility(
            Countdown_updateControlVisibility(
                [c EXCEPT !.initialTime = c.remainingTime], "timer"),
            "initial")

Countdown_start(c, clock) ==
    IF c.isRunning THEN c
    ELSE IF c.remainingTime <= 0
    THEN Countdown_resetInput([c EXCEPT !.msg = "Countdown is zero. Please set a time."])
    ELSE Countdown_updateButtonVisibility(
            SetInterval([c EXCEPT !.isRunning = TRUE, !.startTime = clock]), "running")

\* the interval callback of Countdown.start
\* An interval callback that ends the run without resetting the input.
Countdown_tick_NoReset(c, clock) ==
    LET elapsedSinceLastUpdate == clock - c.startTime
        d == [c EXCEPT !.startTime = clock,
                       !.remainingTime = @ - elapsedSinceLastUpdate]
    IN  IF d.remainingTime <= 0
        THEN Countdown_updateControlVisibility(
                [TimerBase_updateDisplay(
                    ClearInterval([d EXCEPT !.remainingTime = 0]), 0)
                    EXCEPT !.isRunning = FALSE, !.msg = "Countdown Expired!"],
                "input")
        ELSE TimerBase_updateDisplay(d, d.remainingTime)

\* An interval callback that floors the time at zero and goes on ticking.
Countdown_tick_NeverStops(c, clock) ==
    LET elapsedSinceLastUpdate == clock - c.startTime
        d == [c EXCEPT !.startTime = clock,
                       !.remainingTime = Max(0, @ - elapsedSinceLastUpdate)]
    IN  TimerBase_updateDisplay(d, d.remainingTime)

Countdown_tick(c, clock) ==
    LET elapsedSinceLastUpdate == clock - c.startTime
        d == [c EXCEPT !.startTime = clock,
                       !.remainingTime = @ - elapsedSinceLastUpdate]
    IN  IF d.remainingTime <= 0
        THEN Countdown_resetInput(
                Countdown_updateControlVisibility(
                    [TimerBase_updateDisplay(
                        ClearInterval([d EXCEPT !.remainingTime = 0]), 0)
                        EXCEPT !.isRunning = FALSE, !.msg = "Countdown Expired!"],
                    "input"))
        ELSE TimerBase_updateDisplay(d, d.remainingTime)

Countdown_pause(c) ==
    IF ~c.isRunning THEN c
    ELSE Countdown_updateButtonVisibility(
            ClearInterval([c EXCEPT !.isRunning = FALSE]), "paused")

Countdown_continue(c, clock) == Countdown_start(c, clock)

Countdown_resetTimer(c) ==
    [Countdown_updateButtonVisibility(
        Countdown_updateControlVisibility(
            TimerBase_updateDisplay(
                [ClearInterval(c) EXCEPT !.isRunning = FALSE, !.initialTime = 0,
                                         !.remainingTime = 0], 0),
            "input"),
        "initial")
     EXCEPT !.inputBuffer = <<>>]

\* One step of the TimerBase page.  c2 carries the message of the call.
BaseStep(op, w2, c2, ea, pr, q) ==
    /\ variant = "base"
    /\ tbStopwatch' = w2
    /\ countdown' = [c2 EXCEPT !.msg = NoAlert]
    /\ UNCHANGED <<variant, now, stopwatch, countdownTimer, ui, sw, cd, classList>>
    /\ History(op, c2.msg, ea, pr, q)

\* The buttons of the stopwatch screen.
TbStart ==
    /\ tbStopwatch.buttons = "initial"
    /\ BaseStep("Stopwatch.start", Stopwatch_start(tbStopwatch, now), countdown,
                expiredAlerts, pressed, FALSE)

TbPause ==
    /\ tbStopwatch.buttons = "running"
    /\ BaseStep("Stopwatch.pause", Stopwatch_pause(tbStopwatch), countdown,
                expiredAlerts, pressed, FALSE)

TbContinue ==
    /\ tbStopwatch.buttons = "paused"
    /\ BaseStep("Stopwatch.continue", Stopwatch_continue(tbStopwatch, now), countdown,
                expiredAlerts, pressed, FALSE)

TbClear ==
    /\ variant = "base"
    /\ BaseStep("Stopwatch.reset", Stopwatch_reset(tbStopwatch), countdown,
                expiredAlerts, pressed, FALSE)

TbTick ==
    \E id \in tbStopwatch.pending :
        BaseStep("Stopwatch.tick", Stopwatch_tick(tbStopwatch, now), countdown,
                 expiredAlerts, pressed, run.quiet)

\* The buttons of the countdown screen.
AppendDigit(digits, maxPresses) ==
    /\ countdown.controls = "input"
    /\ Len(pressed) < maxPresses
    /\ \E digit \in digits :
          BaseStep("Countdown.appendDigit", tbStopwatch,
                   Countdown_appendDigit(countdown, digit),
                   expiredAlerts, Append(pressed, digit), FALSE)

SetTime ==
    /\ countdown.controls = "input"
    /\ LET c2 == Countdown_setTime(countdown)
       IN  BaseStep("Countdown.setTime", tbStopwatch, c2,
                    IF c2.controls = "timer" THEN 0 ELSE expiredAlerts,
                    IF c2.inputBuffer = <<>> THEN <<>> ELSE pressed, FALSE)

ResetInput ==
    /\ countdown.controls = "input"
    /\ BaseStep("Countdown.resetInput", tbStopwatch, Countdown_resetInput(countdown),
                expiredAlerts, <<>>, FALSE)

CdStart ==
    /\ countdown.controls = "timer" /\ countdown.buttons = "initial"
    /\ LET c2 == Countdown_start(countdown, now)
       IN  BaseStep("Countdown.start", tbStopwatch, c2, expiredAlerts,
                    IF c2.inputBuffer = <<>> THEN <<>> ELSE pressed,
                    c2.isRunning /\ ~countdown.isRunning)

CdPause ==
    /\ countdown.controls = "timer" /\ countdown.buttons = "running"
    /\ BaseStep("Countdown.pause", tbStopwatch, Countdown_pause(countdown),
                expiredAlerts, pressed, FALSE)

CdContinue ==
    /\ countdown.controls = "timer" /\ countdown.buttons = "paused"
    /\ LET c2 == Countdown_continue(countdown, now)
       IN  BaseStep("Countdown.continue", tbStopwatch, c2, expiredAlerts,
                    IF c2.inputBuffer = <<>> THEN <<>> ELSE pressed,
                    c2.isRunning /\ ~countdown.isRunning)

ResetTimer ==
    /\ countdown.controls = "timer"
    /\ BaseStep("Countdown.resetTimer", tbStopwatch, Countdown_resetTimer(countdown),
                0, <<>>, FALSE)

CdTick ==
    \E id \in countdown.pending :
        LET c2 == Countdown_tick(countdown, now)
            expired == c2.msg = "Countdown Expired!"
        IN  /\ expired => expiredAlerts < MaxAlerts
            /\ BaseStep("Countdown.tick", tbStopwatch, c2,
                        IF expired THEN expiredAlerts + 1 ELSE expiredAlerts,
                        IF expired THEN <<>> ELSE pressed, run.quiet)

\* ------------------------------------------------ proc: the procedural script
\* The markup is not part of the script; the initial classes follow the page
\* described in prompt.md (Start shown, Pause and Continue hidden, the digit
\* keys with Set and Clear first, the countdown controls after Set).
ProcInitialHidden == {"swPauseBtn", "swContBtn", "cdControls", "cdPauseBtn", "cdContBtn"}

\* swInterval, swStart and cdInterval, cdEnd are undefined until first assigned.
NewSw == [swInterval |-> Null, swStart |-> 0, swElapsed |-> 0, pending |-> {},
          display |-> formatTime(0)]

NewCd == [cdDigits |-> <<>>, cdMilliseconds |-> 0, cdInterval |-> Null, cdEnd |-> 0,
          pending |-> {}, display |-> formatTime(0)]

Visible(el) == el \notin classList

\* One step of the procedural page.
ProcStep(op, s2, c2, h2, al, ea, pr, q) ==
    /\ variant = "proc"
    /\ sw' = s2
    /\ cd' = c2
    /\ classList' = h2
    /\ UNCHANGED <<variant, now, stopwatch, countdownTimer, ui, tbStopwatch, countdown>>
    /\ History(op, al, ea, pr, q)

\* updateStopwatch(): the callback of swInterval
updateStopwatch(s, clock) ==
    LET elapsed == clock - s.swStart + s.swElapsed
    IN  [s EXCEPT !.display = formatTime(elapsed)]

\* swStartBtn.onclick and swContBtn.onclick: the globals after the click
swStartBtn_onclick(s, clock) ==
    LET id == FreshId(s.pending, s.swInterval)
    IN  [s EXCEPT !.swStart = clock, !.swInterval = id, !.pending = @ \cup {id}]

swPauseBtn_onclick(s, clock) ==
    [s EXCEPT !.pending = @ \ {s.swInterval}, !.swElapsed = @ + (clock - s.swStart)]

swContBtn_onclick(s, clock) ==
    LET id == FreshId(s.pending, s.swInterval)
    IN  [s EXCEPT !.swStart = clock, !.swInterval = id, !.pending = @ \cup {id}]

swClearBtn_onclick(s) ==
    [s EXCEPT !.pending = @ \ {s.swInterval}, !.display = formatTime(0), !.swElapsed = 0]

SwStart ==
    /\ Visible("swStartBtn")
    /\ ProcStep("swStartBtn.onclick", swStartBtn_onclick(sw, now), cd,
                (classList \cup {"swStartBtn"}) \ {"swPauseBtn"},
                NoAlert, expiredAlerts, pressed, FALSE)

SwPause ==
    /\ Visible("swPauseBtn")
    /\ ProcStep("swPauseBtn.onclick", swPauseBtn_onclick(sw, now), cd,
                (classList \cup {"swPauseBtn"}) \ {"swContBtn"},
                NoAlert, expiredAlerts, pressed, FALSE)

SwCont ==
    /\ Visible("swContBtn")
    /\ ProcStep("swContBtn.onclick", swContBtn_onclick(sw, now), cd,
                (classList \cup {"swContBtn"}) \ {"swPauseBtn"},
                NoAlert, expiredAlerts, pressed, FALSE)

SwClear ==
    /\ variant = "proc"
    /\ ProcStep("swClearBtn.onclick", swClearBtn_onclick(sw), cd,
                (classList \ {"swStartBtn"}) \cup {"swPauseBtn", "swContBtn"},
                NoAlert, expiredAlerts, pressed, FALSE)

SwTick ==
    \E id \in sw.pending :
        ProcStep("updateStopwatch", updateStopwatch(sw, now), cd, classList,
                 NoAlert, expiredAlerts, pressed, run.quiet)

\* updateCountdownDisplay()
updateCountdownDisplay(c) ==
    LET padded == PadStart6(c.cdDigits)
    IN  [c EXCEPT !.display = [hours |-> SubSeq(padded, 1, 2),
                               minutes |-> SubSeq(padded, 3, 4),
                               seconds |-> SubSeq(padded, 5, 6),
                               milliseconds |-> <<0, 0, 0>>]]

\* the onclick of digit button i
digitBtn_onclick(c, i) ==
    IF Len(c.cdDigits) >= 6 THEN c
    ELSE updateCountdownDisplay([c EXCEPT !.cdDigits = Append(@, i)])

getCountdownMilliseconds(c) ==
    LET padded == PadStart6(c.cdDigits)
        h == ParseInt2(SubSeq(padded, 1, 2))
        m == ParseInt2(SubSeq(padded, 3, 4))
        s == ParseInt2(SubSeq(padded, 5, 6))
    IN  (h * 3600 + m * 60 + s) * 1000

\* cdSetBtn.onclick: the globals after the click
cdSetBtn_onclick(c) == [c EXCEPT !.cdMilliseconds = getCountdownMilliseconds(c)]

\* runCountdown(): the callback of cdInterval
runCountdown(c, clock) ==
    LET remaining == Max(0, c.cdEnd - clock)
        d == [c EXCEPT !.display = formatTime(remaining)]
    IN  IF remaining <= 0 THEN [d EXCEPT !.pending = @ \ {c.cdInterval}] ELSE d

cdStartBtn_onclick(c, clock) ==
    LET id == FreshId(c.pending, c.cdInterval)
    IN  [c EXCEPT !.cdEnd = clock + c.cdMilliseconds, !.cdInterval = id,
                  !.pending = @ \cup {id}]

\* A Pause that banks the time left without the floor at zero.
cdPauseBtn_onclick_NoFloor(c, clock) ==
    [c EXCEPT !.pending = @ \ {c.cdInterval}, !.cdMilliseconds = c.cdEnd - clock]

cdPauseBtn_onclick(c, clock) ==
    [c EXCEPT !.pending = @ \ {c.cdInterval}, !.cdMilliseconds = Max(0, c.cdEnd - clock)]

\* A Continue that restarts the interval against the end time of before the
\* pause.
cdContBtn_onclick_KeepsEnd(c, clock) ==
    LET id == FreshId(c.pending, c.cdInterval)
    IN  [c EXCEPT !.cdInterval = id, !.pending = @ \cup {id}]

cdContBtn_onclick(c, clock) ==
    LET id == FreshId(c.pending, c.cdInterval)
    IN  [c EXCEPT !.cdEnd = clock + c.cdMilliseconds, !.cdInterval = id,
                  !.pending = @ \cup {id}]

cdClearBtn_onclick(c) ==
    [c EXCEPT !.pending = @ \ {c.cdInterval}, !.cdDigits = <<>>, !.cdMilliseconds = 0,
              !.display = formatTime(0)]

cdClearInputBtn_onclick(c) == updateCountdownDisplay([c EXCEPT !.cdDigits = <<>>])

CdDigit(digits, maxPresses) ==
    /\ Visible("cdInputControls")
    /\ Len(pressed) < maxPresses
    /\ \E i \in digits :
          ProcStep("digitBtn.onclick", sw, digitBtn_onclick(cd, i), classList,
                   NoAlert, expiredAlerts, Append(pressed, i), FALSE)

CdSet ==
    /\ Visible("cdSetBtn")
    /\ LET c2 == cdSetBtn_onclick(cd)
       IN  IF c2.cdMilliseconds = 0
           THEN ProcStep("cdSetBtn.onclick", sw, c2, classList, "Set a valid time.",
                         expiredAlerts, pressed, FALSE)
           ELSE ProcStep("cdSetBtn.onclick", sw, c2,
                         (classList \cup {"cdInputControls", "cdSetBtn", "cdClearInputBtn"})
                             \ {"cdControls"},
                         NoAlert, 0, pressed, FALSE)

CdRun ==
    \E id \in cd.pending :
        LET expired == Max(0, cd.cdEnd - now) <= 0
        IN  /\ expired => expiredAlerts < MaxAlerts
            /\ ProcStep("runCountdown", sw, runCountdown(cd, now), classList,
                        IF expired THEN "Time's up!" ELSE NoAlert,
                        IF expired THEN expiredAlerts + 1 ELSE expiredAlerts,
                        pressed, run.quiet)

CdStartClick ==
    /\ Visible("cdControls") /\ Visible("cdStartBtn")
    /\ ProcStep("cdStartBtn.onclick", sw, cdStartBtn_onclick(cd, now),
                (classList \cup {"cdStartBtn"}) \ {"cdPauseBtn"},
                NoAlert, expiredAlerts, pressed, TRUE)

CdPauseClick ==
    /\ Visible("cdControls") /\ Visible("cdPauseBtn")
    /\ ProcStep("cdPauseBtn.onclick", sw, cdPauseBtn_onclick(cd, now),
                (classList \cup {"cdPauseBtn"}) \ {"cdContBtn"},
                NoAlert, expiredAlerts, pressed, FALSE)

CdContClick ==
    /\ Visible("cdControls") /\ Visible("cdContBtn")
    /\ ProcStep("cdContBtn.onclick", sw, cdContBtn_onclick(cd, now),
                (classList \cup {"cdContBtn"}) \ {"cdPauseBtn"},
                NoAlert, expiredAlerts, pressed, TRUE)

CdClearClick ==
    /\ Visible("cdControls")
    /\ ProcStep("cdClearBtn.onclick", sw, cdClearBtn_onclick(cd),
                (classList \cup {"cdControls", "cdPauseBtn", "cdContBtn"})
                    \ {"cdInputControls", "cdSetBtn", "cdClearInputBtn", "cdStartBtn"},
                NoAlert, 0, <<>>, FALSE)

CdClearInputClick ==
    /\ Visible("cdClearInputBtn")
    /\ ProcStep("cdClearInputBtn.onclick", sw, cdClearInputBtn_onclick(cd), classList,
                NoAlert, expiredAlerts, <<>>, FALSE)

\* ------------------------------------------------ the clock
\* Date.now() moves on; nothing else changes until a callback or a handler runs.
Advance(maxSteps) ==
    /\ now + ClockStep <= Epoch + maxSteps * ClockStep
    /\ now' = now + ClockStep
    /\ UNCHANGED <<variant, stopwatch, countdownTimer, ui, tbStopwatch, countdown,
                   sw, cd, classList>>
    /\ History("advance", NoAlert, expiredAlerts, pressed, run.quiet)

\* ------------------------------------------------ the page's events
Screens == {"home", "stopwatch", "countdown"}

ClassNavigation(screens) == \E screen \in screens : ShowScreen(screen)

StopwatchNext ==
    \/ StartStopwatch
    \/ PauseStopwatch
    \/ ContinueStopwatch
    \/ ClearStopwatch
    \/ TimerFrame
    \/ TbStart
    \/ TbPause
    \/ TbContinue
    \/ TbClear
    \/ TbTick
    \/ SwStart
    \/ SwPause
    \/ SwCont
    \/ SwClear
    \/ SwTick

EntryNext(digits, maxPresses) ==
    \/ HandleNumberInput(digits, maxPresses)
    \/ HandleBackspace
    \/ ClearCountdownInput
    \/ SetCountdownTime
    \/ ClearCountdown
    \/ AppendDigit(digits, maxPresses)
    \/ SetTime
    \/ ResetInput
    \/ ResetTimer
    \/ CdDigit(digits, maxPresses)
    \/ CdSet
    \/ CdClearInputClick
    \/ CdClearClick

CountdownNext ==
    \/ StartCountdown
    \/ PauseCountdown
    \/ ContinueCountdown
    \/ UpdateDisplays
    \/ CountdownTimerFrame
    \/ CdStart
    \/ CdPause
    \/ CdContinue
    \/ CdTick
    \/ CdStartClick
    \/ CdPauseClick
    \/ CdContClick
    \/ CdRun

Init ==
    /\ variant \in {"class", "proc", "base"}
    /\ now = Epoch
    /\ stopwatch = NewTimer
    /\ countdownTimer = NewCountdownTimer
    /\ ui = NewUI
    /\ tbStopwatch = NewStopwatch
    /\ countdown = NewCountdown
    /\ sw = NewSw
    /\ cd = NewCd
    /\ classList = ProcInitialHidden
    /\ alert = NoAlert
    /\ expiredAlerts = 0
    /\ pressed = <<>>
    /\ run = [since |-> Epoch, quiet |-> FALSE]
    /\ swMark = [at |-> Epoch, elapsed |-> 0]
    /\ lastOp = [op |-> "load", swRunning |-> FALSE, cdRunning |-> FALSE]
    /\ formatArg = 0
    /\ formatted = NotFormatted

\* The whole page: both engines and the digit entry, over a short stretch of time
\* and a short entry.
PagePresses == 1

PageDigits == {1}

Next ==
    \/ ClassNavigation(Screens)
    \/ StopwatchNext
    \/ EntryNext(PageDigits, PagePresses)
    \/ CountdownNext
    \/ Advance(PageSteps)

Spec == Init /\ [][Next]_vars

\* The page when the browser keeps running the animation frames it was asked
\* for: the display loop (line 656) and the engines' _update callbacks (lines
\* 67 and 217) are not postponed for ever.
SpecFrames ==
    /\ Init /\ [][Next]_vars
    /\ WF_vars(UpdateDisplays)
    /\ WF_vars(CountdownTimerFrame)
    /\ WF_vars(TimerFrame)

\* ------------------------------------------------ the engines called directly
\* The methods of one engine object called in any order, as a caller other
\* than the page's buttons may: variant names the object.
Engines == {"Timer", "CountdownTimer", "TimerBase.Stopwatch", "TimerBase.Countdown"}

\* The arguments of CountdownTimer.setTime.
SetTimeArgs == {0 - 1000, 0, 1000, 1500}

TimerCall(op, t2) ==
    /\ variant = "Timer"
    /\ stopwatch' = t2
    /\ UNCHANGED <<variant, now, ui, sw, cd, classList, countdownTimer, tbStopwatch, countdown>>
    /\ History(op, NoAlert, expiredAlerts, pressed, FALSE)

CountdownTimerCall(op, c2) ==
    /\ variant = "CountdownTimer"
    /\ countdownTimer' = c2
    /\ UNCHANGED <<variant, now, ui, sw, cd, classList, stopwatch, tbStopwatch, countdown>>
    /\ History(op, NoAlert, expiredAlerts, pressed, FALSE)

StopwatchCall(op, w2) ==
    /\ variant = "TimerBase.Stopwatch"
    /\ tbStopwatch' = w2
    /\ UNCHANGED <<variant, now, ui, sw, cd, classList, stopwatch, countdownTimer, countdown>>
    /\ History(op, NoAlert, expiredAlerts, pressed, FALSE)

CountdownCall(op, c2, ea, pr) ==
    /\ variant = "TimerBase.Countdown"
    /\ countdown' = [c2 EXCEPT !.msg = NoAlert]
    /\ UNCHANGED <<variant, now, ui, sw, cd, classList, stopwatch, countdownTimer,
                   tbStopwatch>>
    /\ History(op, c2.msg, ea, pr, FALSE)

CallTimerStart ==
    /\ variant = "Timer"
    /\ TimerCall("start", Timer_start(stopwatch, now))
CallTimerStop ==
    /\ variant = "Timer"
    /\ TimerCall("stop", Timer_stop(stopwatch))
CallTimerReset ==
    /\ variant = "Timer"
    /\ TimerCall("reset", Timer_reset(stopwatch))
CallTimerFrame ==
    \E id \in stopwatch.pending :
        TimerCall("_update", Timer_update([stopwatch EXCEPT !.pending = @ \ {id}], now))

CallCountdownTimerSetTime ==
    /\ variant = "CountdownTimer"
    /\ \E ms \in SetTimeArgs :
        CountdownTimerCall("setTime", CountdownTimer_setTime(countdownTimer, ms))
CallCountdownTimerStart ==
    /\ variant = "CountdownTimer"
    /\ CountdownTimerCall("start", CountdownTimer_start(countdownTimer, now))
CallCountdownTimerStop ==
    /\ variant = "CountdownTimer"
    /\ CountdownTimerCall("stop", CountdownTimer_stop(countdownTimer))
CallCountdownTimerReset ==
    /\ variant = "CountdownTimer"
    /\ CountdownTimerCall("reset", CountdownTimer_reset(countdownTimer))
CallCountdownTimerClear ==
    /\ variant = "CountdownTimer"
    /\ CountdownTimerCall("clear", CountdownTimer_clear(countdownTimer))
CallCountdownTimerFrame ==
    \E id \in countdownTimer.pending :
        CountdownTimerCall("_update",
            CountdownTimer_update([countdownTimer EXCEPT !.pending = @ \ {id}], now))

CallStopwatchStart ==
    /\ variant = "TimerBase.Stopwatch"
    /\ StopwatchCall("start", Stopwatch_start(tbStopwatch, now))
CallStopwatchPause ==
    /\ variant = "TimerBase.Stopwatch"
    /\ StopwatchCall("pause", Stopwatch_pause(tbStopwatch))
CallStopwatchContinue ==
    /\ variant = "TimerBase.Stopwatch"
    /\ StopwatchCall("continue", Stopwatch_continue(tbStopwatch, now))
CallStopwatchReset ==
    /\ variant = "TimerBase.Stopwatch"
    /\ StopwatchCall("reset", Stopwatch_reset(tbStopwatch))
CallStopwatchTick ==
    \E id \in tbStopwatch.pending :
        StopwatchCall("tick", Stopwatch_tick(tbStopwatch, now))

CallCountdownAppendDigit ==
    /\ Len(pressed) < MaxPresses
    /\ \E digit \in TimingDigits :
          CountdownCall("appendDigit", Countdown_appendDigit(countdown, digit),
                        expiredAlerts, Append(pressed, digit))
CallCountdownSetTime ==
    /\ variant = "TimerBase.Countdown"
    /\ LET c2 == Countdown_setTime(countdown)
       IN  CountdownCall("setTime", c2, expiredAlerts,
                         IF c2.inputBuffer = <<>> THEN <<>> ELSE pressed)
CallCountdownStart ==
    /\ variant = "TimerBase.Countdown"
    /\ LET c2 == Countdown_start(countdown, now)
       IN  CountdownCall("start", c2, expiredAlerts,
                         IF c2.inputBuffer = <<>> THEN <<>> ELSE pressed)
CallCountdownPause ==
    /\ variant = "TimerBase.Countdown"
    /\ CountdownCall("pause", Countdown_pause(countdown), expiredAlerts, pressed)
CallCountdownContinue ==
    /\ variant = "TimerBase.Countdown"
    /\ LET c2 == Countdown_continue(countdown, now)
       IN  CountdownCall("continue", c2, expiredAlerts,
                         IF c2.inputBuffer = <<>> THEN <<>> ELSE pressed)
CallCountdownResetInput ==
    /\ variant = "TimerBase.Countdown"
    /\ CountdownCall("resetInput", Countdown_resetInput(countdown), expiredAlerts, <<>>)
CallCountdownResetTimer ==
    /\ variant = "TimerBase.Countdown"
    /\ CountdownCall("resetTimer", Countdown_resetTimer(countdown), 0, <<>>)
CallCountdownTick ==
    \E id \in countdown.pending :
        LET c2 == Countdown_tick(countdown, now)
            expired == c2.msg = "Countdown Expired!"
        IN  /\ expired => expiredAlerts < MaxAlerts
            /\ CountdownCall("tick", c2,
                             IF expired THEN expiredAlerts + 1 ELSE expiredAlerts,
                             IF expired THEN <<>> ELSE pressed)

InitEngine ==
    /\ variant \in Engines
    /\ now = Epoch
    /\ stopwatch = NewTimer
    /\ countdownTimer = NewCountdownTimer
    /\ ui = NewUI
    /\ tbStopwatch = NewStopwatch
    /\ countdown = NewCountdown
    /\ sw = NewSw
    /\ cd = NewCd
    /\ classList = ProcInitialHidden
    /\ alert = NoAlert
    /\ expiredAlerts = 0
    /\ pressed = <<>>
    /\ run = [since |-> Epoch, quiet |-> FALSE]
    /\ swMark = [at |-> Epoch, elapsed |-> 0]
    /\ lastOp = [op |-> "load", swRunning |-> FALSE, cdRunning |-> FALSE]
    /\ formatArg = 0
    /\ formatted = NotFormatted

NextEngine ==
    \/ CallTimerStart
    \/ CallTimerStop
    \/ CallTimerReset
    \/ CallTimerFrame
    \/ CallCountdownTimerSetTime
    \/ CallCountdownTimerStart
    \/ CallCountdownTimerStop
    \/ CallCountdownTimerReset
    \/ CallCountdownTimerClear
    \/ CallCountdownTimerFrame
    \/ CallStopwatchStart
    \/ CallStopwatchPause
    \/ CallStopwatchContinue
    \/ CallStopwatchReset
    \/ CallStopwatchTick
    \/ CallCountdownAppendDigit
    \/ CallCountdownSetTime
    \/ CallCountdownStart
    \/ CallCountdownPause
    \/ CallCountdownContinue
    \/ CallCountdownResetInput
    \/ CallCountdownResetTimer
    \/ CallCountdownTick
    \/ Advance(MaxSteps)

SpecEngine == InitEngine /\ [][NextEngine]_vars

\* ------------------------------------------------ two stopwatches side by side
\* A class-based Timer and a TimerBase Stopwatch receive the same events: each
\* call goes to both objects, and a tick is the pending callback of each
\* running (the animation frame of line 67, the interval of line 1249).
BothCall(op, t2, w2) ==
    /\ variant = "Timer and Stopwatch"
    /\ stopwatch' = t2
    /\ tbStopwatch' = w2
    /\ UNCHANGED <<variant, now, ui, sw, cd, classList, countdownTimer, countdown>>
    /\ History(op, NoAlert, expiredAlerts, pressed, FALSE)

BothStart ==
    BothCall("start", Timer_start(stopwatch, now), Stopwatch_start(tbStopwatch, now))

BothPause ==
    BothCall("pause", Timer_stop(stopwatch), Stopwatch_pause(tbStopwatch))

BothContinue ==
    BothCall("continue", Timer_start(stopwatch, now), Stopwatch_continue(tbStopwatch, now))

BothReset ==
    BothCall("reset", Timer_reset(stopwatch), Stopwatch_reset(tbStopwatch))

BothTick ==
    \E id \in stopwatch.pending :
        /\ tbStopwatch.pending # {}
        /\ BothCall("tick", Timer_update([stopwatch EXCEPT !.pending = @ \ {id}], now),
                    Stopwatch_tick(tbStopwatch, now))

InitBoth ==
    /\ variant = "Timer and Stopwatch"
    /\ now = Epoch
    /\ stopwatch = NewTimer
    /\ countdownTimer = NewCountdownTimer
    /\ ui = NewUI
    /\ tbStopwatch = NewStopwatch
    /\ countdown = NewCountdown
    /\ sw = NewSw
    /\ cd = NewCd
    /\ classList = ProcInitialHidden
    /\ alert = NoAlert
    /\ expiredAlerts = 0
    /\ pressed = <<>>
    /\ run = [since |-> Epoch, quiet |-> FALSE]
    /\ swMark = [at |-> Epoch, elapsed |-> 0]
    /\ lastOp = [op |-> "load", swRunning |-> FALSE, cdRunning |-> FALSE]
    /\ formatArg = 0
    /\ formatted = NotFormatted

NextBoth ==
    \/ BothStart
    \/ BothPause
    \/ BothContinue
    \/ BothReset
    \/ BothTick
    \/ Advance(MaxSteps)

SpecBoth == InitBoth /\ [][NextBoth]_vars

\* The countdown alone, over a longer stretch of time.
NextCountdown ==
    \/ ClassNavigation(Screens)
    \/ EntryNext(TimingDigits, MaxPresses)
    \/ CountdownNext
    \/ Advance(MaxSteps)

SpecCountdown == Init /\ [][NextCountdown]_vars

\* The countdown when the callbacks that were asked for do run (animation
\* frames of line 217, the interval of line 1509) and the clock moves on as far
\* as the stretch of time that is looked at; the user stays on the countdown
\* screen and the entry is short.
NextTicks ==
    \/ ClassNavigation({"countdown"})
    \/ EntryNext(PageDigits, PagePresses)
    \/ CountdownNext
    \/ Advance(PageSteps)

SpecTicks ==
    /\ Init /\ [][NextTicks]_vars
    /\ WF_vars(CountdownTimerFrame)
    /\ WF_vars(CdTick)
    /\ WF_vars(Advance(PageSteps))

\* The stopwatch alone.
NextStopwatch ==
    \/ ClassNavigation(Screens)
    \/ StopwatchNext
    \/ Advance(MaxSteps)

SpecStopwatch == Init /\ [][NextStopwatch]_vars

\* The digit entry alone, with more keys and longer sequences; the clock stands still.
\* The user opens the countdown screen and stays on it.
NextEntry == EntryNext(EntryDigits, MaxEntryPresses) \/ ClassNavigation({"countdown"})

SpecEntry == Init /\ [][NextEntry]_vars

\* ------------------------------------------------ the formatters called directly
\* Each of the three formatters applied to the same milliseconds.
MaxFormatHours == 123

FormatHours == {0, 9, 10, 99, 100, MaxFormatHours}

FormatArgs ==
    {h * 3600000 + m * 60000 + s * 1000 + k :
        h \in FormatHours, m \in {0, 9, 59}, s \in {0, 59}, k \in {0, 7, 999}}

CallFormat(op, f2) ==
    /\ variant = "formatTime"
    /\ formatted' = f2
    /\ lastOp' = [op |-> op, swRunning |-> FALSE, cdRunning |-> FALSE]
    /\ UNCHANGED <<variant, now, stopwatch, countdownTimer, ui, tbStopwatch, countdown,
                   sw, cd, classList, alert, expiredAlerts, pressed, run, swMark,
                   formatArg>>

CallTimerFormatTime ==
    /\ ~formatted.timer.called
    /\ CallFormat("Timer.formatTime",
                  [formatted EXCEPT !.timer = [called |-> TRUE,
                                               text |-> Timer_formatTime(formatArg)]])

CallFormatTime ==
    /\ ~formatted.proc.called
    /\ CallFormat("formatTime",
                  [formatted EXCEPT !.proc = [called |-> TRUE,
                                              text |-> formatTime(formatArg)]])

CallTimerBaseFormatTime ==
    /\ ~formatted.base.called
    /\ CallFormat("TimerBase.formatTime",
                  [formatted EXCEPT !.base = [called |-> TRUE,
                                              text |-> TimerBase_formatTime(formatArg)]])

InitFormat ==
    /\ variant = "formatTime"
    /\ now = Epoch
    /\ stopwatch = NewTimer
    /\ countdownTimer = NewCountdownTimer
    /\ ui = NewUI
    /\ tbStopwatch = NewStopwatch
    /\ countdown = NewCountdown
    /\ sw = NewSw
    /\ cd = NewCd
    /\ classList = ProcInitialHidden
    /\ alert = NoAlert
    /\ expiredAlerts = 0
    /\ pressed = <<>>
    /\ run = [since |-> Epoch, quiet |-> FALSE]
    /\ swMark = [at |-> Epoch, elapsed |-> 0]
    /\ lastOp = [op |-> "load", swRunning |-> FALSE, cdRunning |-> FALSE]
    /\ formatArg \in FormatArgs
    /\ formatted = NotFormatted

NextFormat == CallTimerFormatTime \/ CallFormatTime \/ CallTimerBaseFormatTime

SpecFormat == InitFormat /\ [][NextFormat]_vars

\* ================================================ the properties checked
\* ------------------------------------------------ digit entry
\* The last min(n, 6) of the n digits in h, in order.
LastSix(h) ==
    LET n == Len(h)
        k == IF n < 6 THEN n ELSE 6
    IN  [i \in 1..k |-> h[n - k + i]]

\* The decimal number a digit sequence writes.
RECURSIVE Decimal(_)
Decimal(ds) ==
    IF ds = <<>> THEN 0 ELSE 10 * Decimal(SubSeq(ds, 1, Len(ds) - 1)) + ds[Len(ds)]

\* The duration entered by the presses h: the last six digits read as HHMMSS,
\* missing leading digits being zeros.
EnteredMs(h) ==
    LET v == Decimal(LastSix(h))
    IN  ((v \div 10000) * 3600 + ((v \div 100) % 100) * 60 + (v % 100)) * 1000

\* C1: in the class-based and the TimerBase variants, after n digit presses from
\* an empty buffer the buffer holds the last min(n, 6) digits pressed, in order,
\* and the duration derived from it (what Set hands to the engine in the class
\* variant, what appendDigit leaves in remainingTime in the TimerBase variant)
\* is (HH*3600 + MM*60 + SS)*1000 of the buffer padded with zeros to HHMMSS.
C1_BufferKeepsLastSixDigits ==
    /\ variant = "class" =>
          /\ ui.inputSequence = LastSix(pressed)
          /\ Len(ui.inputSequence) <= 6
          /\ TotalMs(ui.inputSequence) = EnteredMs(pressed)
          /\ (lastOp.op = "setCountdownTime" /\ alert = NoAlert) =>
                /\ countdownTimer.initialTime = EnteredMs(pressed)
                /\ countdownTimer.remainingTime = EnteredMs(pressed)
    /\ variant = "base" =>
          /\ countdown.inputBuffer = LastSix(pressed)
          /\ Len(countdown.inputBuffer) <= 6
          /\ countdown.remainingTime = EnteredMs(pressed)

\* Seven presses 9 5 6 0 5 0 9 and Set: the 9 pressed first has dropped out and
\* the engine holds 56:05:09.
C1_SeventhDigitPushedTheFirstOut ==
    /\ variant = "class"
    /\ pressed = <<9, 5, 6, 0, 5, 0, 9>>
    /\ ui.inputSequence = <<5, 6, 0, 5, 0, 9>>
    /\ lastOp.op = "setCountdownTime"
    /\ countdownTimer.initialTime = (56 * 3600 + 5 * 60 + 9) * 1000

\* ------------------------------------------------ expiry
\* C2: for a configured duration d > 0, in the class-based CountdownTimer and the
\* TimerBase Countdown, once the clock has advanced by at least d since the
\* engine began to run and it has run since without a pause, the next tick
\* leaves the engine not running with remaining time 0; and while the user
\* gives no further input the expiration alert is raised exactly once: none
\* while the engine runs, one at the expiring tick (TimerBase) or at the first
\* display frame after it (class), and none at any later tick or frame.
C2_ExpiresAndAlertsOnce ==
    [][ /\ (/\ lastOp'.op = "CountdownTimer._update"
            /\ countdownTimer.isRunning
            /\ countdownTimer.initialTime > 0
            /\ now - run.since >= countdownTimer.initialTime)
           => (~countdownTimer'.isRunning /\ countdownTimer'.remainingTime = 0)
        /\ (/\ lastOp'.op = "Countdown.tick"
            /\ countdown.isRunning
            /\ countdown.initialTime > 0
            /\ now - run.since >= countdown.initialTime)
           => /\ ~countdown'.isRunning /\ countdown'.remainingTime = 0
              /\ alert' = "Countdown Expired!"
        /\ (variant' \in {"class", "base"} /\ run'.quiet) =>
              /\ CdRunning' => expiredAlerts' = 0
              /\ expiredAlerts' <= 1
              /\ (variant' = "base" /\ ~CdRunning') => expiredAlerts' = 1
              /\ (/\ variant' = "class"
                  /\ lastOp'.op = "_updateDisplays"
                  /\ countdownTimer'.hasExpired) => expiredAlerts' = 1
      ]_vars

\* The class-based countdown has expired untouched by the user, the alert has
\* been shown once, and a later display frame has just run without one.
C2_FrameAfterTheAlert ==
    /\ variant = "class"
    /\ run.quiet
    /\ countdownTimer.hasExpired /\ ~countdownTimer.isRunning
    /\ countdownTimer.remainingTime = 0
    /\ now - run.since >= countdownTimer.initialTime
    /\ ui.countdownExpired
    /\ lastOp.op = "_updateDisplays" /\ alert = NoAlert
    /\ expiredAlerts = 1

\* ------------------------------------------------ pause and resume
\* C3: in the class-based CountdownTimer, stop() at remaining time r followed by
\* start() continues from r: the tick that start() runs, and so every later
\* one, yields no remaining time greater than r.
C3_ResumeContinuesFromRemaining ==
    [][ lastOp'.op = "continueCountdown"
        => countdownTimer'.remainingTime <= countdownTimer.remainingTime ]_vars

\* ------------------------------------------------ the alert of a session
\* C4: in the class-based variant, between one successful Set and the next Set
\* or Clear the alert 'Countdown has expired!' is shown at most once, whatever
\* Start, Pause and Continue clicks follow the expiry.
C4_AlertOncePerSession ==
    variant = "class" => expiredAlerts <= 1

\* ------------------------------------------------ start on a running engine
\* C5: start() called on an engine that is already running (class Timer.start,
\* class CountdownTimer.start, TimerBase Stopwatch.start) changes nothing:
\* the anchor, the elapsed or remaining time, the running flag and the set of
\* scheduled tick callbacks are the same after the call as before.
C5_StartOnRunningChangesNothing ==
    [][ /\ (variant = "Timer" /\ lastOp'.op = "start" /\ stopwatch.isRunning)
           => stopwatch' = stopwatch
        /\ (variant = "CountdownTimer" /\ lastOp'.op = "start" /\ countdownTimer.isRunning)
           => countdownTimer' = countdownTimer
        /\ (variant = "TimerBase.Stopwatch" /\ lastOp'.op = "start" /\ tbStopwatch.isRunning)
           => tbStopwatch' = tbStopwatch
      ]_vars

\* Timer.start() has just been called on a running Timer whose latest tick is
\* older than the clock: a start that took effect would have brought the
\* elapsed time up to date.
C5_StartCalledWhileRunning ==
    /\ variant = "Timer"
    /\ lastOp = [op |-> "start", swRunning |-> TRUE, cdRunning |-> FALSE]
    /\ stopwatch.isRunning
    /\ stopwatch.pending # {}
    /\ stopwatch.elapsedTime < now - stopwatch.startTime

\* ------------------------------------------------ stopwatch pause and resume
\* C6: for the class-based Timer and the TimerBase Stopwatch and a pause of any
\* length, the elapsed time right after resuming is the elapsed time at the
\* moment of pausing, and at every later tick it is that value plus the time
\* since the resume: time spent paused is never counted.  swMark.elapsed is the
\* elapsed time when the engine last stopped running (0 after a reset) and
\* swMark.at the clock when it last began to run.
C6_PausedTimeIsNotCounted ==
    [][ /\ (variant \in {"class", "base"}
            /\ lastOp'.op \in {"continueStopwatch", "Stopwatch.continue"})
           => SwElapsed' = swMark.elapsed
        /\ (variant \in {"class", "base"} /\ SwRunning
            /\ lastOp'.op \in {"Timer._update", "Stopwatch.tick"})
           => SwElapsed' = swMark.elapsed + (now - swMark.at)
        /\ (variant \in {"class", "base"} /\ ~SwRunning
            /\ lastOp'.op \notin {"clearStopwatch", "Stopwatch.reset"})
           => SwElapsed' = SwElapsed
      ]_vars

\* The class stopwatch ran for one clock step, was paused for one, was resumed
\* and has just ticked one step after the resume: it shows two steps, not three.
C6_TickAfterAPause ==
    /\ variant = "class"
    /\ lastOp.op = "Timer._update"
    /\ stopwatch.isRunning
    /\ swMark.elapsed = ClockStep
    /\ swMark.at = Epoch + 2 * ClockStep
    /\ now = Epoch + 3 * ClockStep
    /\ stopwatch.elapsedTime = 2 * ClockStep

\* ------------------------------------------------ stopwatch reset
\* C7: resetting the stopwatch from any reachable state (never started, running
\* or paused) leaves, in all three variants (Timer.reset behind the class Clear
\* button, the TimerBase Stopwatch.reset, the procedural swClearBtn handler),
\* elapsed time 0, the engine not running and no tick callback scheduled; the
\* displays the two later variants write show zero.
C7_ResetZeroesAndStops ==
    [][ /\ (variant = "class" /\ lastOp'.op = "clearStopwatch")
           => /\ stopwatch'.elapsedTime = 0
              /\ ~stopwatch'.isRunning
              /\ stopwatch'.pending = {}
        /\ (variant = "base" /\ lastOp'.op = "Stopwatch.reset")
           => /\ tbStopwatch'.elapsedTime = 0
              /\ ~tbStopwatch'.isRunning
              /\ tbStopwatch'.pending = {}
              /\ tbStopwatch'.display = TimerBase_formatTime(0)
        /\ (variant = "proc" /\ lastOp'.op = "swClearBtn.onclick")
           => /\ sw'.swElapsed = 0
              /\ sw'.pending = {}
              /\ sw'.display = formatTime(0)
      ]_vars

\* The class stopwatch has just been reset while it was running, some time
\* after it last began to run.
C7_ResetWhileRunning ==
    /\ variant = "class"
    /\ lastOp = [op |-> "clearStopwatch", swRunning |-> TRUE, cdRunning |-> FALSE]
    /\ swMark.at > Epoch
    /\ now > swMark.at
    /\ stopwatch.elapsedTime = 0 /\ ~stopwatch.isRunning

\* ------------------------------------------------ countdown clear
\* C8: clearing the countdown from any reachable state in which its Clear button
\* can be clicked (configured, running, paused, expired) leaves, in all three
\* variants (CountdownTimer.clear behind UIController.clearCountdown,
\* Countdown.resetTimer, the procedural cdClearBtn handler), the configured
\* duration 0, the remaining time 0, the engine not running, the digit buffer
\* empty and the digit-entry controls shown in place of the timer controls.
C8_ClearReturnsToEntry ==
    [][ /\ (variant = "class" /\ lastOp'.op = "clearCountdown")
           => /\ countdownTimer'.initialTime = 0
              /\ countdownTimer'.remainingTime = 0
              /\ ~countdownTimer'.isRunning
              /\ ui'.inputSequence = <<>>
              /\ "countdownInput" \notin ui'.hidden
              /\ "countdownControls" \in ui'.hidden
        /\ (variant = "base" /\ lastOp'.op = "Countdown.resetTimer")
           => /\ countdown'.initialTime = 0
              /\ countdown'.remainingTime = 0
              /\ ~countdown'.isRunning
              /\ countdown'.pending = {}
              /\ countdown'.inputBuffer = <<>>
              /\ countdown'.controls = "input"
        /\ (variant = "proc" /\ lastOp'.op = "cdClearBtn.onclick")
           => /\ cd'.cdMilliseconds = 0
              /\ cd'.pending = {}
              /\ cd'.cdDigits = <<>>
              /\ "cdInputControls" \notin classList'
              /\ "cdControls" \in classList'
      ]_vars

\* The class countdown has just been cleared while it was running, some time
\* into its run.
C8_ClearedWhileRunning ==
    /\ variant = "class"
    /\ lastOp = [op |-> "clearCountdown", swRunning |-> FALSE, cdRunning |-> TRUE]
    /\ now > run.since
    /\ alert = "Countdown has been cleared"
    /\ countdownTimer.initialTime = 0 /\ ui.inputSequence = <<>>

\* ------------------------------------------------ Set
\* A buffer that is empty or holds zeros only.
AllZero(buffer) == \A i \in 1..Len(buffer) : buffer[i] = 0

\* C9: in all three variants, confirming (Set) a buffer whose duration is zero,
\* empty or all zeros, is rejected with the variant's message and leaves the
\* configured duration, the remaining time, the running flag, the buffer and
\* the visible control group as they were.
C9_ZeroDurationIsRejected ==
    [][ /\ (variant = "class" /\ lastOp'.op = "setCountdownTime"
            /\ AllZero(ui.inputSequence))
           => /\ alert' = "Please enter a valid time greater than zero"
              /\ countdownTimer' = countdownTimer
              /\ ui' = ui
        /\ (variant = "base" /\ lastOp'.op = "Countdown.setTime"
            /\ AllZero(countdown.inputBuffer))
           => /\ alert' = "Please enter a time greater than zero."
              /\ countdown' = countdown
        /\ (variant = "proc" /\ lastOp'.op = "cdSetBtn.onclick"
            /\ AllZero(cd.cdDigits))
           => /\ alert' = "Set a valid time."
              /\ cd' = cd
              /\ classList' = classList
      ]_vars

\* The class page has just rejected a Set of the buffer 00 typed while the
\* engine, configured earlier, was running.
C9_ZerosRejectedWhileRunning ==
    /\ variant = "class"
    /\ lastOp = [op |-> "setCountdownTime", swRunning |-> FALSE, cdRunning |-> TRUE]
    /\ alert = "Please enter a valid time greater than zero"
    /\ ui.inputSequence = <<0, 0>>
    /\ countdownTimer.isRunning /\ countdownTimer.initialTime > 0

\* C10: in the TimerBase variant, setTime on a buffer whose duration exceeds
\* 359,999,000 ms (99:59:59) is rejected with an alert and leaves the buffer
\* empty, the entry controls shown and initialTime 0; every nonzero duration
\* up to 359,999,000 ms is accepted and becomes initialTime.
C10_MaximumIsEnforced ==
    [][ (variant = "base" /\ lastOp'.op = "Countdown.setTime") =>
          /\ EnteredMs(pressed) > 359999000
             => /\ alert' = "Maximum time allowed is 99:59:59."
                /\ countdown'.inputBuffer = <<>>
                /\ countdown'.controls = "input"
                /\ countdown'.initialTime = 0
                /\ countdown'.remainingTime = 0
          /\ (EnteredMs(pressed) > 0 /\ EnteredMs(pressed) <= 359999000)
             => /\ alert' = NoAlert
                /\ countdown'.initialTime = EnteredMs(pressed)
                /\ countdown'.remainingTime = EnteredMs(pressed)
                /\ countdown'.inputBuffer = countdown.inputBuffer
                /\ countdown'.controls = "timer"
      ]_vars

\* Six digits that read above 99:59:59 (99:60:00 is the least of them) have
\* just been rejected and the page is back at an empty entry.
C10_OneSecondOverRejected ==
    /\ variant = "base"
    /\ lastOp.op = "Countdown.setTime"
    /\ alert = "Maximum time allowed is 99:59:59."
    /\ countdown.inputBuffer = <<>> /\ pressed = <<>>
    /\ countdown.controls = "input"
    /\ countdown.initialTime = 0

\* C11: in the class-based and the procedural variants no digits followed by Set
\* configure a countdown longer than 99:59:59: the configured duration
\* (CountdownTimer.initialTime, cdMilliseconds) never exceeds 359,999,000 ms.
C11_NoDurationAboveMaximum ==
    /\ variant = "class" => countdownTimer.initialTime <= 359999000
    /\ variant = "proc" => cd.cdMilliseconds <= 359999000

\* C12: in the class-based variant CountdownTimer.setTime is never applied to a
\* running countdown: whatever the user does, navigating to the home screen and
\* back included, a click on Set leaves the initialTime and the remainingTime
\* of a running engine as they were.
C12_SetLeavesRunningCountdownAlone ==
    [][ (variant = "class" /\ lastOp'.op = "setCountdownTime" /\ countdownTimer.isRunning)
        => /\ countdownTimer'.initialTime = countdownTimer.initialTime
           /\ countdownTimer'.remainingTime = countdownTimer.remainingTime ]_vars

\* ------------------------------------------------ Start with nothing left
\* C13: in the class-based variant a click on Start when the remaining time is 0
\* (unset or expired) does not start the engine and returns the page to the
\* digit-entry phase: the input controls shown, Start, Pause and Continue hidden.
C13_StartAtZeroReturnsToEntry ==
    [][ (variant = "class" /\ lastOp'.op = "startCountdown"
         /\ countdownTimer.remainingTime = 0)
        => /\ ~countdownTimer'.isRunning
           /\ "countdownInput" \notin ui'.hidden
           /\ {"startCountdownBtn", "pauseCountdownBtn", "continueCountdownBtn"}
                 \subseteq ui'.hidden ]_vars

\* ------------------------------------------------ the moment of pausing
\* C14: right after a successful pause of the stopwatch at clock value now, the
\* elapsed time is now minus the anchor, even when the clock has moved since
\* the last tick (Timer.stop behind the class Pause button, the TimerBase
\* Stopwatch.pause, the procedural swPauseBtn handler, whose anchor is
\* swStart less the time banked in swElapsed).
C14_PauseFreezesAtNow ==
    [][ /\ (variant = "class" /\ lastOp'.op = "pauseStopwatch" /\ stopwatch.isRunning)
           => stopwatch'.elapsedTime = now - stopwatch.startTime
        /\ (variant = "base" /\ lastOp'.op = "Stopwatch.pause" /\ tbStopwatch.isRunning)
           => tbStopwatch'.elapsedTime = now - tbStopwatch.startTime
        /\ (variant = "proc" /\ lastOp'.op = "swPauseBtn.onclick")
           => sw'.swElapsed = now - (sw.swStart - sw.swElapsed)
      ]_vars

\* ------------------------------------------------ stale callbacks
\* C15: whenever the class-based CountdownTimer is not running (after stop,
\* reset, clear or expiry) none of its _update callbacks remains scheduled: the
\* animationFrame handle is null and no animation frame of the engine is
\* pending.
C15_NoFramePendingWhenStopped ==
    (variant \in {"class", "CountdownTimer"} /\ ~countdownTimer.isRunning)
       => (countdownTimer.animationFrame = Null /\ countdownTimer.pending = {})

\* ------------------------------------------------ formatting
\* The digit string text writes n in decimal, padded with zeros to width digits
\* and longer only when n needs more.
Renders(text, n, width) ==
    /\ Decimal(text) = n
    /\ Len(text) >= width
    /\ Len(text) > width => text[1] # 0

FormatsArg(t) ==
    /\ Renders(t.hours, formatArg \div 3600000, 2)
    /\ Renders(t.minutes, (formatArg % 3600000) \div 60000, 2)
    /\ Renders(t.seconds, (formatArg % 60000) \div 1000, 2)
    /\ Renders(t.milliseconds, formatArg % 1000, 3)

\* C16: for every non-negative integer ms, Timer.formatTime, the procedural
\* formatTime and TimerBase.formatTime each yield hours = floor(ms/3,600,000),
\* minutes = floor((ms mod 3,600,000)/60,000), seconds = floor((ms mod
\* 60,000)/1000) and millis = ms mod 1000, hours, minutes and seconds padded
\* with zeros to at least 2 digits and millis to 3, hours of 100 and more
\* written in full; and the three agree.
C16_FormattersAgreeOnTheParts ==
    /\ formatted.timer.called => FormatsArg(formatted.timer.text)
    /\ formatted.proc.called => FormatsArg(formatted.proc.text)
    /\ formatted.base.called => FormatsArg(formatted.base.text)
    /\ (formatted.timer.called /\ formatted.proc.called /\ formatted.base.called)
       => /\ formatted.timer.text = formatted.proc.text
          /\ formatted.proc.text = formatted.base.text

\* All three formatters have written 100:59:59.007.
C16_HundredHoursInFull ==
    /\ formatArg = 100 * 3600000 + 59 * 60000 + 59 * 1000 + 7
    /\ formatted.timer.called /\ formatted.proc.called /\ formatted.base.called
    /\ formatted.timer.text = [hours |-> <<1, 0, 0>>, minutes |-> <<5, 9>>,
                               seconds |-> <<5, 9>>, milliseconds |-> <<0, 0, 7>>]
    /\ formatted.base.text = formatted.timer.text

\* ------------------------------------------------ the procedural digit keys
\* C17: in the procedural variant a digit pressed when cdDigits already holds 6
\* digits drops the oldest digit and appends the new one, so that the buffer
\* always holds the last 6 digits pressed.
C17_ProceduralBufferShifts ==
    variant = "proc" => cd.cdDigits = LastSix(pressed)

\* ------------------------------------------------ two engines, no shared state
StopwatchOps ==
    {"startStopwatch", "pauseStopwatch", "continueStopwatch", "clearStopwatch",
     "Timer._update",
     "Stopwatch.start", "Stopwatch.pause", "Stopwatch.continue", "Stopwatch.reset",
     "Stopwatch.tick",
     "swStartBtn.onclick", "swPauseBtn.onclick", "swContBtn.onclick",
     "swClearBtn.onclick", "updateStopwatch"}

CountdownOps ==
    {"handleNumberInput", "handleBackspace", "clearCountdownInput", "setCountdownTime",
     "startCountdown", "pauseCountdown", "continueCountdown", "clearCountdown",
     "CountdownTimer._update",
     "Countdown.appendDigit", "Countdown.setTime", "Countdown.resetInput",
     "Countdown.start", "Countdown.pause", "Countdown.continue", "Countdown.resetTimer",
     "Countdown.tick",
     "digitBtn.onclick", "cdSetBtn.onclick", "cdClearInputBtn.onclick",
     "cdStartBtn.onclick", "cdPauseBtn.onclick", "cdContBtn.onclick",
     "cdClearBtn.onclick", "runCountdown"}

\* All the state of the countdown, and of the stopwatch, in every variant.
CountdownState == <<countdownTimer, ui.inputSequence, ui.countdownExpired, countdown, cd>>

StopwatchState == <<stopwatch, tbStopwatch, sw>>

\* C18: every stopwatch operation (start, pause, continue, reset, tick) leaves
\* all countdown state (configured duration, remaining time, running and
\* expired flags, digit buffer) unchanged, and every countdown operation (digit
\* press, backspace, set, start, pause, continue, clear, tick) leaves all
\* stopwatch state unchanged, in any interleaving of the two engines' events.
C18_EnginesShareNoState ==
    [][ /\ lastOp'.op \in StopwatchOps => CountdownState' = CountdownState
        /\ lastOp'.op \in CountdownOps => StopwatchState' = StopwatchState ]_vars

\* The class stopwatch has just been paused while the countdown runs, and the
\* countdown is still running.
C18_StopwatchPausedWhileCountdownRuns ==
    /\ variant = "class"
    /\ lastOp = [op |-> "pauseStopwatch", swRunning |-> TRUE, cdRunning |-> TRUE]
    /\ countdownTimer.isRunning /\ countdownTimer.initialTime > 0
    /\ ~stopwatch.isRunning

\* ------------------------------------------------ never negative
NeverNegative ==
    /\ stopwatch.elapsedTime >= 0
    /\ tbStopwatch.elapsedTime >= 0
    /\ sw.swElapsed >= 0
    /\ countdownTimer.remainingTime >= 0
    /\ countdown.remainingTime >= 0
    /\ cd.cdMilliseconds >= 0

\* C19: in every reachable state of every variant, the clock never going back,
\* the stopwatch's elapsed time and the countdown's remaining time are at
\* least 0; a countdown tick that lands after the end time leaves the
\* remaining time (in the procedural script, the time it displays) at exactly
\* 0, not below.
C19_TimesAreNeverNegative ==
    /\ []NeverNegative
    /\ [][ /\ (lastOp'.op = "CountdownTimer._update" /\ countdownTimer.isRunning
               /\ now - countdownTimer.startTime > countdownTimer.initialTime)
              => countdownTimer'.remainingTime = 0
           /\ (lastOp'.op = "Countdown.tick"
               /\ now - countdown.startTime > countdown.remainingTime)
              => countdown'.remainingTime = 0
           /\ (lastOp'.op = "runCountdown" /\ now > cd.cdEnd)
              => cd'.display = formatTime(0)
           /\ (lastOp'.op = "cdPauseBtn.onclick" /\ now > cd.cdEnd)
              => cd'.cdMilliseconds = 0
         ]_vars

\* A tick of the class countdown has just landed after the end of a run and
\* left the remaining time at 0.
C19_TickPastTheEnd ==
    /\ variant = "class"
    /\ lastOp.op = "CountdownTimer._update" /\ lastOp.cdRunning
    /\ countdownTimer.initialTime > 0
    /\ now - countdownTimer.startTime > countdownTimer.initialTime
    /\ countdownTimer.remainingTime = 0
    /\ countdownTimer.hasExpired

\* ------------------------------------- remaining within the duration
\* C20: in every reachable state of the class-based CountdownTimer, under any
\* sequence of setTime, start, stop, reset, clear and ticks with a clock that
\* never goes back, remainingTime is at most initialTime.
C20_RemainingWithinDuration ==
    variant = "CountdownTimer" =>
        countdownTimer.remainingTime <= countdownTimer.initialTime

\* A tick of a running CountdownTimer has just taken the remaining time
\* strictly below the duration without ending the run.
C20_TickedBelowDuration ==
    /\ variant = "CountdownTimer"
    /\ lastOp.op = "_update"
    /\ countdownTimer.isRunning
    /\ countdownTimer.remainingTime > 0
    /\ countdownTimer.remainingTime < countdownTimer.initialTime

\* C21: in every reachable state of the TimerBase Countdown, the states in
\* which digits are being entered before Set included, remainingTime is at
\* most initialTime.
C21_BaseRemainingWithinDuration ==
    variant = "base" => countdown.remainingTime <= countdown.initialTime

\* ------------------------------------------------ pause when not running
\* C22: pausing an engine that is not running (Timer.stop, CountdownTimer.stop,
\* Stopwatch.pause and Countdown.pause of TimerBase) raises no error and
\* leaves every field of the engine as it was: time, anchor, running flag,
\* expired flag and scheduled callbacks.
C22_PauseWhenNotRunningIsIgnored ==
    [][ /\ (variant = "Timer" /\ lastOp'.op = "stop" /\ ~stopwatch.isRunning)
           => stopwatch' = stopwatch /\ alert' = NoAlert
        /\ (variant = "CountdownTimer" /\ lastOp'.op = "stop" /\ ~countdownTimer.isRunning)
           => countdownTimer' = countdownTimer /\ alert' = NoAlert
        /\ (variant = "TimerBase.Stopwatch" /\ lastOp'.op = "pause" /\ ~tbStopwatch.isRunning)
           => tbStopwatch' = tbStopwatch /\ alert' = NoAlert
        /\ (variant = "TimerBase.Countdown" /\ lastOp'.op = "pause" /\ ~countdown.isRunning)
           => countdown' = countdown /\ alert' = NoAlert
      ]_vars

\* stop() has just been called on a CountdownTimer that had expired, with the
\* frame requested by the expiring tick still scheduled.
C22_StopAfterExpiry ==
    /\ variant = "CountdownTimer"
    /\ lastOp.op = "stop" /\ ~lastOp.cdRunning
    /\ ~countdownTimer.isRunning
    /\ countdownTimer.hasExpired
    /\ countdownTimer.animationFrame # Null
    /\ countdownTimer.animationFrame \in countdownTimer.pending

\* ------------------------------------------------ the buttons after the expiry
\* C23: in the procedural variant, once the countdown has expired and
\* 'Time's up!' has been shown, no clicks on the Pause and Continue buttons
\* start a new interval or show 'Time's up!' again: Continue with no time
\* left does nothing.
C23_NoRestartAfterExpiry ==
    /\ [](variant = "proc" => expiredAlerts <= 1)
    /\ [][ (variant = "proc" /\ lastOp'.op = "cdContBtn.onclick"
            /\ expiredAlerts >= 1 /\ cd.cdMilliseconds = 0)
           => cd'.pending = cd.pending /\ cd'.cdInterval = cd.cdInterval ]_vars

\* ------------------------------------------------ one tick chain per engine
\* C24: at any time each engine has at most one tick callback pending; in
\* particular no interleaving of expiry, Clear, Set and Start with the
\* animation frames leaves the class-based CountdownTimer with two pending
\* _update callbacks.
C24_OneCallbackPerEngine ==
    /\ Cardinality(stopwatch.pending) <= 1
    /\ Cardinality(countdownTimer.pending) <= 1
    /\ Cardinality(tbStopwatch.pending) <= 1
    /\ Cardinality(countdown.pending) <= 1
    /\ Cardinality(sw.pending) <= 1
    /\ Cardinality(cd.pending) <= 1

\* ------------------------------------------------ an expiry off screen
\* C25: in the class-based variant, when the countdown has expired without the
\* alert having been shown (it ran out while the home or the stopwatch screen
\* was shown) and the user is back on the countdown screen, the alert
\* 'Countdown has expired!' is eventually shown, unless the user clears or
\* sets the countdown again first.
C25_ExpiryShownOnReturn ==
    (variant = "class" /\ countdownTimer.hasExpired /\ expiredAlerts = 0
        /\ Shown("countdownScreen"))
    ~> (expiredAlerts >= 1 \/ ~countdownTimer.hasExpired)

\* ------------------------------------------------ the digits as typed
\* C26: in the TimerBase variant, after every digit press the countdown display
\* shows the digit buffer itself, padded with zeros to six digits and split as
\* HH:MM:SS, whatever the buffer holds: a minutes or seconds field between 60
\* and 99 is shown as typed.
C26_DisplayShowsDigitsAsTyped ==
    [][ (variant = "base" /\ lastOp'.op = "Countdown.appendDigit") =>
            LET padded == PadStart6(countdown'.inputBuffer)
            IN  /\ countdown'.display.hours = SubSeq(padded, 1, 2)
                /\ countdown'.display.minutes = SubSeq(padded, 3, 4)
                /\ countdown'.display.seconds = SubSeq(padded, 5, 6)
      ]_vars

\* ------------------------------------------------ fields of 60 and more
\* The buffer, read as HHMMSS, has a minutes or a seconds field of 60 or more.
FieldOverflow(buffer) ==
    LET padded == PadStart6(buffer)
    IN  \/ ParseInt2(SubSeq(padded, 3, 4)) >= 60
        \/ ParseInt2(SubSeq(padded, 5, 6)) >= 60

\* C27: in no variant does a buffer whose minutes or seconds field is 60 or
\* more reach the engine: Set on such a buffer is rejected and the configured
\* duration of the engine stays what it was.
C27_FieldOverflowIsRejected ==
    [][ /\ (variant = "class" /\ lastOp'.op = "setCountdownTime"
            /\ FieldOverflow(ui.inputSequence))
           => countdownTimer'.initialTime = countdownTimer.initialTime
        /\ (variant = "base" /\ lastOp'.op = "Countdown.setTime"
            /\ FieldOverflow(countdown.inputBuffer))
           => countdown'.initialTime = countdown.initialTime
        /\ (variant = "proc" /\ lastOp'.op = "cdSetBtn.onclick"
            /\ FieldOverflow(cd.cdDigits))
           => cd'.cdMilliseconds = cd.cdMilliseconds
      ]_vars

\* ------------------------------------------------ a tick of a stopped engine
\* C28: a tick callback that fires while its engine is not running
\* (Timer._update, CountdownTimer._update) changes no field of the engine and
\* schedules no further callback: the callback that fired is gone and
\* nothing else differs, and _update run on any stopped engine returns the
\* engine as it was.
C28_TickWhenNotRunningDoesNothing ==
    /\ [](/\ ~stopwatch.isRunning => Timer_update(stopwatch, now) = stopwatch
          /\ ~countdownTimer.isRunning
                => CountdownTimer_update(countdownTimer, now) = countdownTimer)
    /\ [][ /\ (variant = "Timer" /\ lastOp'.op = "_update" /\ ~stopwatch.isRunning)
              => /\ [stopwatch' EXCEPT !.pending = {}] = [stopwatch EXCEPT !.pending = {}]
                 /\ stopwatch'.pending \subseteq stopwatch.pending
                 /\ stopwatch'.pending # stopwatch.pending
           /\ (variant = "CountdownTimer" /\ lastOp'.op = "_update"
               /\ ~countdownTimer.isRunning)
              => /\ [countdownTimer' EXCEPT !.pending = {}]
                       = [countdownTimer EXCEPT !.pending = {}]
                 /\ countdownTimer'.pending \subseteq countdownTimer.pending
                 /\ countdownTimer'.pending # countdownTimer.pending
         ]_vars

\* The frame requested by the expiring tick has just fired on the expired
\* CountdownTimer, after the clock had moved on: the time, the flags and the
\* handle are as the expiry left them and no frame is pending any more.
C28_StaleFrameFired ==
    /\ variant = "CountdownTimer"
    /\ lastOp.op = "_update" /\ ~lastOp.cdRunning
    /\ ~countdownTimer.isRunning /\ countdownTimer.hasExpired
    /\ countdownTimer.remainingTime = 0
    /\ now - countdownTimer.startTime > countdownTimer.initialTime
    /\ countdownTimer.animationFrame # Null
    /\ countdownTimer.pending = {}

\* ------------------------------------------------ resuming a paused countdown
\* C29: in the TimerBase Countdown and in the procedural countdown, Continue
\* after Pause goes on from the remaining time frozen at the pause: the
\* resume itself does not change the remaining time, so never increases it,
\* and the ticks that follow deduct the time since the resume only, never the
\* time spent paused.
C29_ResumeFromFrozenRemaining ==
    [][ /\ (variant = "base" /\ lastOp'.op = "Countdown.continue"
            /\ ~countdown.isRunning /\ countdown.remainingTime > 0)
           => /\ countdown'.isRunning
              /\ countdown'.remainingTime = countdown.remainingTime
              /\ countdown'.startTime = now
        /\ (variant = "base" /\ lastOp'.op = "Countdown.tick" /\ countdown.isRunning)
           => /\ countdown'.remainingTime
                    >= Max(0, countdown.remainingTime - (now - run.since))
              /\ countdown'.remainingTime <= countdown.remainingTime
        /\ (variant = "proc" /\ lastOp'.op = "cdContBtn.onclick")
           => /\ cd'.cdMilliseconds = cd.cdMilliseconds
              /\ cd'.cdEnd - now = cd.cdMilliseconds
        /\ (variant = "proc" /\ lastOp'.op = "runCountdown")
           => cd'.display = formatTime(Max(0, cd.cdMilliseconds - (now - run.since)))
      ]_vars

\* The TimerBase countdown ran, was paused while the clock moved on, was
\* resumed and has just ticked: the time taken off is the time it ran, less
\* than the time since it was first started.
C29_TickAfterPausedTime ==
    /\ variant = "base"
    /\ lastOp.op = "Countdown.tick" /\ lastOp.cdRunning
    /\ countdown.isRunning
    /\ now - run.since > 0
    /\ countdown.initialTime - countdown.remainingTime > now - run.since
    /\ now - Epoch > countdown.initialTime - countdown.remainingTime

\* ------------------------------------------------ the expiry of TimerBase
\* C30: the tick on which the TimerBase Countdown expires cancels its own
\* interval and leaves the engine as resetTimer would: not running,
\* initialTime 0, remainingTime 0, the digit buffer empty and the digit-entry
\* controls shown; no tick of that run is left to fire.
C30_ExpiryLeavesResetState ==
    /\ [](variant = "base" /\ ~countdown.isRunning => countdown.pending = {})
    /\ [][ (variant = "base" /\ lastOp'.op = "Countdown.tick"
            /\ countdown.remainingTime - (now - countdown.startTime) <= 0)
           => /\ ~countdown'.isRunning
              /\ countdown'.pending = {}
              /\ countdown'.initialTime = 0
              /\ countdown'.remainingTime = 0
              /\ countdown'.inputBuffer = <<>>
              /\ countdown'.controls = "input"
              /\ [countdown' EXCEPT !.startTime = 0, !.msg = NoAlert]
                    = [Countdown_resetTimer(countdown)
                          EXCEPT !.startTime = 0, !.msg = NoAlert]
         ]_vars

\* The interval callback of a running TimerBase countdown has just found the
\* time run out: the alert is shown and the page is back at the digit entry.
C30_ExpiringTick ==
    /\ variant = "base"
    /\ lastOp.op = "Countdown.tick" /\ lastOp.cdRunning
    /\ alert = "Countdown Expired!"
    /\ now - run.since >= 1000
    /\ ~countdown.isRunning /\ countdown.pending = {}
    /\ countdown.controls = "input"

\* ------------------------------------------------ one button at a time
\* C31: in the class-based variant at most one of the Start, Pause and
\* Continue buttons of the countdown controls is visible in any reachable
\* state, however the clicks interleave with the engine's ticks and the
\* frames of the display loop.
C31_OneCountdownButtonVisible ==
    variant = "class" =>
        Cardinality({"startCountdownBtn", "pauseCountdownBtn", "continueCountdownBtn"}
                        \ ui.hidden) <= 1

\* ------------------------------------------------ the expired flag
\* C32: in every reachable state of the class-based CountdownTimer, hasExpired
\* implies that the engine is not running and that remainingTime is 0, and
\* hasExpired turns true only in a tick taken while the engine is running.
C32_ExpiredMeansStoppedAtZero ==
    /\ [](variant = "CountdownTimer" /\ countdownTimer.hasExpired
            => ~countdownTimer.isRunning /\ countdownTimer.remainingTime = 0)
    /\ [][ (variant = "CountdownTimer" /\ ~countdownTimer.hasExpired
            /\ countdownTimer'.hasExpired)
           => lastOp'.op = "_update" /\ countdownTimer.isRunning ]_vars

\* The CountdownTimer expired, start() was then called on it and, the time
\* left being 0, left it expired and stopped.
C32_StartOnExpired ==
    /\ variant = "CountdownTimer"
    /\ lastOp.op = "start" /\ ~lastOp.cdRunning
    /\ countdownTimer.hasExpired
    /\ countdownTimer.initialTime > 0
    /\ ~countdownTimer.isRunning /\ countdownTimer.remainingTime = 0

\* ------------------------------------------------ running with time left
\* C33: between events, whenever a countdown engine is running (the class-based
\* CountdownTimer, the TimerBase Countdown) its remaining time and its
\* configured duration are both greater than 0.
C33_RunningHasTimeLeft ==
    /\ (variant = "class" /\ countdownTimer.isRunning)
       => countdownTimer.remainingTime > 0 /\ countdownTimer.initialTime > 0
    /\ (variant = "base" /\ countdown.isRunning)
       => countdown.remainingTime > 0 /\ countdown.initialTime > 0

\* A tick has just left the running TimerBase countdown with less than one
\* clock step to go.
C33_RunningNearTheEnd ==
    /\ variant = "base"
    /\ lastOp.op = "Countdown.tick" /\ lastOp.cdRunning
    /\ countdown.isRunning
    /\ countdown.remainingTime > 0
    /\ countdown.remainingTime < ClockStep
    /\ countdown.remainingTime < countdown.initialTime

\* ------------------------------------------------ a digit and a backspace
\* What a digit followed by Backspace must leave of the sequence before.
AfterDigitAndBackspace(before) == IF Len(before) < 6 THEN before ELSE Tail(before)

\* C34: in the class-based variant a digit followed by Backspace gives back
\* the buffer of before the digit when that buffer held fewer than 6 digits,
\* and that buffer without its oldest digit when it held 6; Backspace on an
\* empty buffer leaves it empty.
C34_BackspaceUndoesADigit ==
    /\ [](variant = "class" =>
            \A number \in EntryDigits :
                UI_handleBackspace(UI_handleNumberInput(ui.inputSequence, number))
                    = AfterDigitAndBackspace(ui.inputSequence))
    /\ [][ /\ (variant = "class" /\ lastOp.op = "handleNumberInput"
               /\ lastOp'.op = "handleBackspace")
              => ui'.inputSequence
                    = AfterDigitAndBackspace(LastSix(SubSeq(pressed, 1, Len(pressed) - 1)))
           /\ (variant = "class" /\ lastOp'.op = "handleBackspace"
               /\ ui.inputSequence = <<>>)
              => ui'.inputSequence = <<>>
         ]_vars

\* Backspace has just run after more than one digit and left five digits, the
\* oldest of which differs from the newest: removing the wrong end would show.
C34_BackspaceLeftFiveDigits ==
    /\ variant = "class"
    /\ lastOp.op = "handleBackspace"
    /\ Len(ui.inputSequence) = 5
    /\ ui.inputSequence[1] # ui.inputSequence[5]

\* ------------------------------------------------ every run comes to its end
\* The clock can reach the end of the run within the stretch of time looked at.
EndInSight(deadline) == deadline <= Epoch + PageSteps * ClockStep

\* C35: when the tick callbacks are scheduled fairly and the clock keeps
\* advancing, a running countdown (class-based CountdownTimer, TimerBase
\* Countdown) that is not paused, cleared or set again eventually expires:
\* it is not running and its remaining time is 0.  After the expiry no tick
\* callback stays pending for ever.
C35_RunningCountdownExpires ==
    /\ (variant = "class" /\ countdownTimer.isRunning
            /\ EndInSight(countdownTimer.startTime + countdownTimer.initialTime))
       ~> \/ ~countdownTimer.isRunning /\ countdownTimer.remainingTime = 0
          \/ lastOp.op \in {"pauseCountdown", "clearCountdown", "setCountdownTime"}
    /\ (variant = "base" /\ countdown.isRunning
            /\ EndInSight(countdown.startTime + countdown.remainingTime))
       ~> \/ ~countdown.isRunning /\ countdown.remainingTime = 0
          \/ lastOp.op \in {"Countdown.pause", "Countdown.resetTimer"}
    /\ (variant = "class" /\ countdownTimer.hasExpired /\ countdownTimer.pending # {})
       ~> (countdownTimer.pending = {} \/ ~countdownTimer.hasExpired)
    /\ (variant = "base" /\ ~countdown.isRunning) ~> (countdown.pending = {})

\* The class-based countdown was left alone from Start to the tick that has
\* just ended it, and the frame which that tick asked for is still pending.
C35_LeftAloneUntilExpiry ==
    /\ variant = "class"
    /\ run.quiet
    /\ lastOp.op = "CountdownTimer._update" /\ lastOp.cdRunning
    /\ countdownTimer.hasExpired /\ ~countdownTimer.isRunning
    /\ countdownTimer.remainingTime = 0
    /\ countdownTimer.pending # {}

\* ------------------------------------------------ the two stopwatches agree
\* C36: the class-based Timer and the TimerBase Stopwatch are equivalent state
\* machines: given the same sequence of start, pause, continue, reset, tick
\* and clock events they hold the same running flag and the same elapsedTime
\* after every event, and a tick is due in the one exactly when it is due in
\* the other.
C36_StopwatchesAgree ==
    variant = "Timer and Stopwatch" =>
        /\ stopwatch.isRunning = tbStopwatch.isRunning
        /\ stopwatch.elapsedTime = tbStopwatch.elapsedTime
        /\ (stopwatch.pending # {}) = (tbStopwatch.pending # {})

\* Both stopwatches have just ticked after running for two clock steps or
\* more, a stretch of time in which they were not running not being counted:
\* they show the same time, which is less than the time since the page loaded.
C36_TickAfterResume ==
    /\ variant = "Timer and Stopwatch"
    /\ lastOp.op = "tick"
    /\ stopwatch.isRunning /\ tbStopwatch.isRunning
    /\ stopwatch.elapsedTime = tbStopwatch.elapsedTime
    /\ stopwatch.elapsedTime >= 2 * ClockStep
    /\ now - Epoch > stopwatch.elapsedTime
    /\ stopwatch.startTime > Epoch

\* ------------------------------------------------ which buffers overflow
\* The fields of a buffer read as HHMMSS.
FieldHH(buffer) == ParseInt2(SubSeq(PadStart6(buffer), 1, 2))
FieldMM(buffer) == ParseInt2(SubSeq(PadStart6(buffer), 3, 4))
FieldSS(buffer) == ParseInt2(SubSeq(PadStart6(buffer), 5, 6))

\* C37: for every buffer HHMMSS the duration derived from it exceeds
\* 359,999,000 ms exactly when HH is 99 and MM * 60 + SS is at least 3600; so
\* Countdown.setTime of TimerBase never rejects as too long a buffer whose
\* minutes and seconds are both at most 59, and no buffer denotes more than
\* 362,439,000 ms.
C37_OverflowOnlyAbove995959 ==
    /\ [](variant = "base" =>
            /\ (countdown.remainingTime > MaxTimeMs)
                  = (/\ FieldHH(countdown.inputBuffer) = 99
                     /\ FieldMM(countdown.inputBuffer) * 60
                            + FieldSS(countdown.inputBuffer) >= 3600)
            /\ countdown.remainingTime <= 362439000)
    /\ [][ (variant = "base" /\ lastOp'.op = "Countdown.setTime"
            /\ FieldMM(countdown.inputBuffer) <= 59
            /\ FieldSS(countdown.inputBuffer) <= 59)
           => alert' # "Maximum time allowed is 99:59:59." ]_vars

\* The digits 9 9 9 9 9 9 have just been typed into the TimerBase countdown:
\* the duration derived is the largest there is, and it is above the maximum.
C37_LargestBufferTyped ==
    /\ variant = "base"
    /\ lastOp.op = "Countdown.appendDigit"
    /\ countdown.inputBuffer = <<9, 9, 9, 9, 9, 9>>
    /\ countdown.remainingTime = 362439000
    /\ countdown.remainingTime > MaxTimeMs

====
